---- MODULE Spec2Model ----
(***************************************************************************)
(* Backtest runner of AstroFlare: runBacktest / runMultipleBacktests of    *)
(* backend/src/services/backtestingService.js together with the parts of   *)
(* coinGeckoService.js and geminiService.js they call, the technical       *)
(* indicators of TechnicalIndicatorsService, and the POST /test handler of *)
(* backend/src/routes/backtestingRoutes.js.                                *)
(*                                                                         *)
(* JavaScript numbers are modelled as exact rationals [n, d] in lowest     *)
(* terms, extended with NaN, +Infinity, -Infinity (d = 0) and null         *)
(* (d = -1). Math.sqrt is kept to FloatDigits decimals. Binary             *)
(* floating-point rounding is modelled only for the metrics of             *)
(* calculateMetrics before toFixed, with SignificandBits bits.             *)
(* Dates are integers counted in ticks, TicksPerDay ticks to a day, in a   *)
(* server time zone without daylight saving.                               *)
(***************************************************************************)
EXTENDS Integers, Sequences, FiniteSets, TLC

\* ------------------------------------------------------------------------
\* Bounds of the model
\* ------------------------------------------------------------------------
TicksPerDay == 2
MaxTime == 4
MaxHist == 2
MaxDays == 2
MaxPts == 2
MaxLen == 2
MaxPrices == 31
MaxTail == 2
MaxPattern == 2

\* ------------------------------------------------------------------------
\* Program constants
\* ------------------------------------------------------------------------
HistoryDays == 30
MoneyDigits == 4
PercentDigits == 2

\* ------------------------------------------------------------------------
\* JavaScript numbers
\* ------------------------------------------------------------------------
RECURSIVE Gcd(_, _)
Gcd(a, b) == IF b = 0 THEN a ELSE Gcd(b, a % b)

AbsInt(i) == IF i < 0 THEN -i ELSE i

SignInt(i) == IF i < 0 THEN -1 ELSE IF i > 0 THEN 1 ELSE 0

RECURSIVE Pow10(_)
Pow10(k) == IF k = 0 THEN 1 ELSE 10 * Pow10(k - 1)

NaN == [n |-> 0, d |-> 0]
Infinity == [n |-> 1, d |-> 0]
NegInfinity == [n |-> -1, d |-> 0]
Null == [n |-> 0, d |-> -1]

\* the rational num/den, den # 0, in lowest terms with a positive denominator
Rat(num, den) ==
    LET g == Gcd(AbsInt(num), AbsInt(den))
        s == IF den < 0 THEN -1 ELSE 1
    IN  [n |-> s * (num \div g), d |-> s * (den \div g)]

Num(i) == [n |-> i, d |-> 1]
Zero == Num(0)

IsNaN(x) == x = NaN
IsFinite(x) == x.d > 0
IsInf(x) == x.d = 0 /\ x.n # 0

\* ToNumber: null coerces to 0 in arithmetic
ToNum(x) == IF x = Null THEN Zero ELSE x

SignOf(x) == SignInt(ToNum(x).n)

InfOfSign(s) == IF s < 0 THEN NegInfinity ELSE Infinity

Neg(x) == LET a == ToNum(x) IN [n |-> -a.n, d |-> a.d]

Add(x, y) ==
    LET a == ToNum(x)
        b == ToNum(y)
    IN  IF IsNaN(a) \/ IsNaN(b) THEN NaN
        ELSE IF IsInf(a) THEN (IF IsInf(b) /\ b.n # a.n THEN NaN ELSE a)
        ELSE IF IsInf(b) THEN b
        ELSE LET g == Gcd(a.d, b.d)
             IN  Rat(a.n * (b.d \div g) + b.n * (a.d \div g), (a.d \div g) * b.d)

Sub(x, y) == Add(x, Neg(y))

Mul(x, y) ==
    LET a == ToNum(x)
        b == ToNum(y)
    IN  IF IsNaN(a) \/ IsNaN(b) THEN NaN
        ELSE IF IsInf(a) \/ IsInf(b)
             THEN (IF a.n = 0 \/ b.n = 0 THEN NaN ELSE InfOfSign(SignInt(a.n) * SignInt(b.n)))
        ELSE Rat(a.n * b.n, a.d * b.d)

Div(x, y) ==
    LET a == ToNum(x)
        b == ToNum(y)
    IN  IF IsNaN(a) \/ IsNaN(b) THEN NaN
        ELSE IF IsInf(a) THEN (IF IsInf(b) THEN NaN
                               ELSE InfOfSign(a.n * (IF b.n < 0 THEN -1 ELSE 1)))
        ELSE IF IsInf(b) THEN Zero
        ELSE IF b.n = 0 THEN (IF a.n = 0 THEN NaN ELSE InfOfSign(a.n))
        ELSE Rat(a.n * b.d, a.d * b.n)

Abs(x) == LET a == ToNum(x) IN [n |-> AbsInt(a.n), d |-> a.d]

\* x < y and x > y of JavaScript: false as soon as one side is NaN
Lt(x, y) ==
    LET a == ToNum(x)
        b == ToNum(y)
    IN  IF IsNaN(a) \/ IsNaN(b) THEN FALSE
        ELSE IF IsInf(a) THEN a.n < 0 /\ b # a
        ELSE IF IsInf(b) THEN b.n > 0
        ELSE a.n * b.d < b.n * a.d

Gt(x, y) == Lt(y, x)

\* truthiness of a number or null: null, NaN and 0 are falsy
Truthy(x) == x # Null /\ ~IsNaN(x) /\ x.n # 0

\* x || y
OrElse(x, y) == IF Truthy(x) THEN x ELSE y

\* Number(x.toFixed(k)): the multiple of 10^-k nearest to x, the larger one on a tie
ToFixed(x, k) ==
    IF ~IsFinite(x) THEN x
    ELSE LET s == Pow10(k)
             a == AbsInt(x.n)
             whole == a \div x.d
             rem == a % x.d
             frac == (2 * rem * s + x.d) \div (2 * x.d)
         IN  Rat(SignInt(x.n) * (whole * s + frac), s)

\* floor(sqrt(num/den)) by upward search
RECURSIVE SqrtFloor(_, _, _)
SqrtFloor(num, den, r) ==
    IF (r + 1) * (r + 1) * den <= num THEN SqrtFloor(num, den, r + 1) ELSE r

\* the largest decimal digit c with (20 r c + c^2) den <= 100 rem
RECURSIVE SqrtDigit(_, _, _, _)
SqrtDigit(r, rem, den, c) ==
    IF c < 9 /\ (20 * r * (c + 1) + (c + 1) * (c + 1)) * den <= 100 * rem
    THEN SqrtDigit(r, rem, den, c + 1) ELSE c

\* k more decimal digits of the square root, long-hand: <<root, remainder>>
RECURSIVE SqrtDigits(_, _, _, _)
SqrtDigits(r, rem, den, k) ==
    IF k = 0 THEN <<r, rem>>
    ELSE LET c == SqrtDigit(r, rem, den, 0)
         IN  SqrtDigits(10 * r + c, 100 * rem - (20 * r * c + c * c) * den, den, k - 1)

\* Number(Math.sqrt(x).toFixed(k))
SqrtToFixed(x, k) ==
    IF IsNaN(x) \/ x = NegInfinity THEN NaN
    ELSE IF x = Infinity THEN Infinity
    ELSE IF x.n < 0 THEN NaN
    ELSE LET r0 == SqrtFloor(x.n, x.d, 0)
             rr == SqrtDigits(r0, x.n - r0 * r0 * x.d, x.d, k)
             up == IF 4 * rr[2] >= (4 * rr[1] + 1) * x.d THEN 1 ELSE 0
         IN  Rat(rr[1] + up, Pow10(k))

\* 0 + s[lo] + ... + s[hi]; the sum of exact numbers does not depend on the
\* order of the additions, so it is taken by halves
RECURSIVE SumRange(_, _, _)
SumRange(s, lo, hi) ==
    IF lo > hi THEN Zero
    ELSE IF lo = hi THEN Add(Zero, s[lo])
    ELSE LET mid == (lo + hi) \div 2
         IN  Add(SumRange(s, lo, mid), SumRange(s, mid + 1, hi))

\* s.reduce((a, b) => a + b, 0)
SumSeq(s) == SumRange(s, 1, Len(s))

\* ------------------------------------------------------------------------
\* Dates
\* ------------------------------------------------------------------------
\* date.setHours(0, 0, 0, 0)
Midnight(t) == t - (t % TicksPerDay)

\* date.setHours(23, 59, 59, 999): the last instant of the day
EndOfDay(t) == Midnight(t) + TicksPerDay - 1

\* date.setDate(date.getDate() + k)
AddDays(t, k) == t + k * TicksPerDay

\* date.toISOString().split('T')[0]: the calendar day, the time of day is dropped
IsoDay(t) == t \div TicksPerDay

\* ------------------------------------------------------------------------
\* Accuracy scorer
\* ------------------------------------------------------------------------
ErrNone == "none"
ErrNoHistory == "No historical data available for the specified date range"
ErrDataSource == "Failed to fetch CoinGecko data"
ErrNotInitialized == "Gemini API not initialized"
ErrPrompt == "TypeError: Cannot read properties of null (reading 'toLocaleString')"
ErrForecaster == "Gemini generateContent failed"
ErrReduceEmpty == "TypeError: Reduce of empty array with no initial value"
ErrNoActuals == "No actual prices found for predicted dates"
ErrLength == "Predicted and actual prices arrays must have the same length"

\* a base price taken from the end of the actual prices
BasePriceLast(actual, currentPrice, i) == actual[Len(actual)]

\* const basePrice = i === 0 ? currentPrice : actual[i - 1]
BasePrice(actual, currentPrice, i) == IF i = 1 THEN currentPrice ELSE actual[i - 1]

AbsoluteError(p, a) == Abs(Sub(p, a))

PercentageError(p, a) == Mul(Abs(Div(Sub(p, a), a)), Num(100))

\* predictedPrice > basePrice ? 'up' : 'down'
Direction(price, base) == IF Gt(price, base) THEN "up" ELSE "down"

\* a direction counted as right only when both prices rose
DirectionalCorrectBothUp(p, a, base) == Gt(p, base) /\ Gt(a, base)

\* a direction counted as right only when both prices rose or both fell
DirectionalCorrectStrict(p, a, base) ==
    \/ Gt(p, base) /\ Gt(a, base)
    \/ Lt(p, base) /\ Lt(a, base)

DirectionalCorrect(p, a, base) == Direction(p, base) = Direction(a, base)

SquareSeq(s) == [i \in 1..Len(s) |-> Mul(s[i], s[i])]

CountTrue(s) == Cardinality({i \in 1..Len(s) : s[i]})

Mean(s) == Div(SumSeq(s), Num(Len(s)))

NoMetrics ==
    [thrown |-> FALSE, absoluteErrors |-> <<>>, percentageErrors |-> <<>>,
     mae |-> Null, mape |-> Null, rmse |-> Null, directionalAccuracy |-> Null,
     directionalCorrect |-> <<>>]

calculateMetrics(predicted, actual, currentPrice) ==
    IF Len(predicted) # Len(actual) THEN [NoMetrics EXCEPT !.thrown = TRUE]
    ELSE LET idx == 1..Len(predicted)
             errors == [i \in idx |-> AbsoluteError(predicted[i], actual[i])]
             percentageErrors == [i \in idx |-> PercentageError(predicted[i], actual[i])]
             directionalCorrect ==
                 [i \in idx |-> DirectionalCorrect(predicted[i], actual[i],
                                                   BasePrice(actual, currentPrice, i))]
             mae == Mean(errors)
             mape == Mean(percentageErrors)
             mse == Mean(SquareSeq(errors))
             directionalAccuracy == Div(Num(CountTrue(directionalCorrect)), Num(Len(directionalCorrect)))
         IN  [thrown |-> FALSE,
              absoluteErrors |-> errors,
              percentageErrors |-> percentageErrors,
              mae |-> ToFixed(mae, MoneyDigits),
              mape |-> ToFixed(mape, PercentDigits),
              rmse |-> SqrtToFixed(mse, MoneyDigits),
              directionalAccuracy |-> ToFixed(directionalAccuracy, MoneyDigits),
              directionalCorrect |-> directionalCorrect]

\* results.reduce((sum, r) => sum + (r.metrics?.<field> || 0), 0)
RECURSIVE TotalOf(_, _)
TotalOf(results, field) ==
    IF results = <<>> THEN Zero
    ELSE Add(TotalOf(SubSeq(results, 1, Len(results) - 1), field),
             OrElse(results[Len(results)].metrics[field], Zero))

calculateAggregateMetrics(results) ==
    IF Len(results) = 0
    THEN [averageMAE |-> Zero, averageMAPE |-> Zero, averageRMSE |-> Zero,
          averageDirectionalAccuracy |-> Zero]
    ELSE LET count == Num(Len(results))
         IN  [averageMAE |-> ToFixed(Div(TotalOf(results, "mae"), count), MoneyDigits),
              averageMAPE |-> ToFixed(Div(TotalOf(results, "mape"), count), PercentDigits),
              averageRMSE |-> ToFixed(Div(TotalOf(results, "rmse"), count), MoneyDigits),
              averageDirectionalAccuracy |->
                  ToFixed(Div(TotalOf(results, "directionalAccuracy"), count), MoneyDigits)]

\* ------------------------------------------------------------------------
\* Technical indicators (TechnicalIndicatorsService)
\* ------------------------------------------------------------------------
\* decimals a square root is kept to: Math.sqrt is irrational in general
FloatDigits == 3

\* Math.sqrt(x), of x and to FloatDigits decimals
Sqrt(x) == SqrtToFixed(ToFixed(x, FloatDigits), FloatDigits)

\* Math.max(a, b) and Math.min(a, b): NaN as soon as one side is NaN
MathMax(a, b) == IF IsNaN(a) \/ IsNaN(b) THEN NaN ELSE IF Lt(a, b) THEN b ELSE a
\* a minimum that lets its second argument through
MathMinUncapped(a, b) == b

MathMin(a, b) == IF IsNaN(a) \/ IsNaN(b) THEN NaN ELSE IF Lt(b, a) THEN b ELSE a

\* prices.slice(-period), for period <= prices.length
LastOf(prices, period) == SubSeq(prices, Len(prices) - period + 1, Len(prices))

\* an average of the prices there are when they are fewer than the period
calculateSMAOfAvailable(prices, period) ==
    IF Len(prices) = 0 THEN Null
    ELSE IF Len(prices) < period THEN Div(SumSeq(prices), Num(Len(prices)))
    ELSE Div(SumSeq(LastOf(prices, period)), Num(period))

calculateSMA(prices, period) ==
    IF Len(prices) < period THEN Null
    ELSE Div(SumSeq(LastOf(prices, period)), Num(period))

\* ema = (prices[i] * multiplier) + (ema * (1 - multiplier))
EmaStep(ema, price, multiplier) ==
    Add(Mul(price, multiplier), Mul(ema, Sub(Num(1), multiplier)))

\* the loop of calculateEMA from index i on; once NaN, ema stays NaN
RECURSIVE EmaLoop(_, _, _, _)
EmaLoop(prices, i, ema, multiplier) ==
    IF i > Len(prices) THEN ema
    ELSE LET next == EmaStep(ema, prices[i], multiplier)
         IN  IF IsNaN(next) THEN NaN ELSE EmaLoop(prices, i + 1, next, multiplier)

calculateEMA(prices, period) ==
    IF Len(prices) < period THEN Null
    ELSE LET multiplier == Div(Num(2), Num(period + 1))
             seed == Div(SumSeq(SubSeq(prices, 1, period)), Num(period))
         IN  EmaLoop(prices, period + 1, seed, multiplier)

\* changes[i] = prices[i] - prices[i - 1]
Changes(prices) == [i \in 1..(Len(prices) - 1) |-> Sub(prices[i + 1], prices[i])]

\* the gains of the changes: the changes > 0
Gains(changes) == SelectSeq(changes, LAMBDA c : Gt(c, Zero))

\* the losses of the changes: Math.abs of the other ones
Losses(changes) ==
    LET others == SelectSeq(changes, LAMBDA c : ~Gt(c, Zero))
    IN  [i \in 1..Len(others) |-> Abs(others[i])]

\* RSI without the test for an average loss of 0
calculateRSIUnguarded(prices, period) ==
    IF Len(prices) < period + 1 THEN Null
    ELSE LET recent == LastOf(Changes(prices), period)
             avgGain == Div(SumSeq(Gains(recent)), Num(period))
             avgLoss == Div(SumSeq(Losses(recent)), Num(period))
             rs == Div(avgGain, avgLoss)
         IN  Sub(Num(100), Div(Num(100), Add(Num(1), rs)))

calculateRSI(prices, period) ==
    IF Len(prices) < period + 1 THEN Null
    ELSE LET recent == LastOf(Changes(prices), period)
             avgGain == Div(SumSeq(Gains(recent)), Num(period))
             avgLoss == Div(SumSeq(Losses(recent)), Num(period))
             rs == Div(avgGain, avgLoss)
         IN  IF avgLoss = Zero THEN Num(100)
             ELSE Sub(Num(100), Div(Num(100), Add(Num(1), rs)))

\* the simple returns over the steps that start at a positive price
Returns(prices) ==
    LET steps == SelectSeq([i \in 1..(Len(prices) - 1) |-> i],
                           LAMBDA i : Gt(prices[i], Zero))
    IN  [k \in 1..Len(steps) |->
            Div(Sub(prices[steps[k] + 1], prices[steps[k]]), prices[steps[k]])]

calculateVolatility(prices) ==
    IF Len(prices) < 2 THEN Null
    ELSE LET returns == Returns(prices)
             mean == Div(SumSeq(returns), Num(Len(returns)))
             squares == [i \in 1..Len(returns) |->
                            Mul(Sub(returns[i], mean), Sub(returns[i], mean))]
             variance == Div(SumSeq(squares), Num(Len(returns)))
             stdDev == Sqrt(variance)
         IN  Mul(Mul(stdDev, Sqrt(Num(365))), Num(100))

NeutralTrend == [direction |-> "neutral", strength |-> Zero, priceChange |-> Zero]

\* the 0-based index of the regression loop at position k of the sequence
IndexOf(k) == k - 1

calculateTrend(prices) ==
    IF Len(prices) < 10 THEN NeutralTrend
    ELSE LET first == prices[1]
             last == prices[Len(prices)]
             priceChange == Mul(Div(Sub(last, first), first), Num(100))
             n == Num(Len(prices))
             idx == 1..Len(prices)
             sumX == SumSeq([k \in idx |-> Num(IndexOf(k))])
             sumY == SumSeq(prices)
             sumXY == SumSeq([k \in idx |-> Mul(Num(IndexOf(k)), prices[k])])
             sumX2 == SumSeq([k \in idx |-> Num(IndexOf(k) * IndexOf(k))])
             slope == Div(Sub(Mul(n, sumXY), Mul(sumX, sumY)),
                          Sub(Mul(n, sumX2), Mul(sumX, sumX)))
             avgPrice == Div(sumY, n)
             strength == Abs(Mul(Div(slope, avgPrice), Num(100)))
             direction == IF Gt(priceChange, Num(1)) THEN "uptrend"
                          ELSE IF Lt(priceChange, Num(-1)) THEN "downtrend"
                          ELSE "neutral"
         IN  [direction |-> direction,
              strength |-> MathMin(Num(100), MathMax(Zero, Mul(strength, Num(100)))),
              priceChange |-> priceChange]

\* prices.filter(p => p && p > 0)
ValidPrices(prices) == SelectSeq(prices, LAMBDA p : Truthy(p) /\ Gt(p, Zero))

\* no indicators computed yet
NoIndicators ==
    [sma7 |-> Null, sma30 |-> Null, ema12 |-> Null, rsi |-> Null, volatility |-> Null,
     trend |-> NeutralTrend, currentPrice |-> Null]

calculateAllIndicators(prices, currentPrice) ==
    LET validPrices == ValidPrices(prices)
    IN  [sma7 |-> calculateSMA(validPrices, 7),
         sma30 |-> calculateSMA(validPrices, 30),
         ema12 |-> calculateEMA(validPrices, 12),
         rsi |-> calculateRSI(validPrices, 14),
         volatility |-> calculateVolatility(validPrices),
         trend |-> calculateTrend(validPrices),
         currentPrice |-> currentPrice]

\* ------------------------------------------------------------------------
\* Price source (coinGeckoService) and forecaster (geminiService)
\* ------------------------------------------------------------------------
\* prices the data source may report for a day of the historical window; a trial
\* run inside a batch draws from the narrower set, to keep the product over the
\* trials of a batch small
HistPriceVals(inBatch) == IF inBatch THEN {Null, Num(2)} ELSE {Null, Zero, Num(2), Num(4)}

\* prices the data source may report for a day of the horizon
ActualPriceVals(inBatch) == IF inBatch THEN {Null, Num(3)} ELSE {Null, Num(1), Num(3)}

\* priceTarget of a parsable forecast; Null: the JSON has no priceTarget
ParsedTargets == {Null, Num(3)}

\* responses of getHistoricalData for the 30-day window: the prices of its points
HistResponses(inBatch) == UNION {[1..k -> HistPriceVals(inBatch)] : k \in 0..MaxHist}

\* ascending timestamp sequences of at most k elements within lo..hi
RECURSIVE AscendingTimes(_, _, _)
AscendingTimes(lo, hi, k) ==
    IF k = 0 THEN {<<>>}
    ELSE {<<>>} \cup UNION {{<<t>> \o s : s \in AscendingTimes(t + 1, hi, k - 1)} : t \in lo..hi}

\* responses of getHistoricalData for a requested range: at most MaxPts points,
\* ascending by timestamp, all within the range
RangeResponses(range, inBatch) ==
    UNION {{[i \in 1..Len(ts) |-> [timestamp |-> ts[i], price |-> ps[i]]] :
               ps \in [1..Len(ts) -> ActualPriceVals(inBatch)]} :
           ts \in AscendingTimes(range.from, range.to, MaxPts)}

\* texts the forecaster may answer: unparsable, or JSON with or without a priceTarget
ForecastTexts ==
    {[parsable |-> FALSE, priceTarget |-> Null]}
    \cup {[parsable |-> TRUE, priceTarget |-> t] : t \in ParsedTargets}

\* a comparison that lets an equally distant later sample win
CloserOrEqual(current, closest, target) ==
    AbsInt(current.timestamp - target) <= AbsInt(closest.timestamp - target)

\* currentDiff < closestDiff ? current : closest
Closer(current, closest, target) ==
    AbsInt(current.timestamp - target) < AbsInt(closest.timestamp - target)

RECURSIVE ReduceClosest(_, _, _, _)
ReduceClosest(dataPoints, target, closest, i) ==
    IF i > Len(dataPoints) THEN closest
    ELSE ReduceClosest(dataPoints, target,
                       IF Closer(dataPoints[i], closest, target) THEN dataPoints[i] ELSE closest,
                       i + 1)

\* dataPoints.reduce(...) without an initial value, dataPoints not empty
ClosestPoint(dataPoints, target) == ReduceClosest(dataPoints, target, dataPoints[1], 2)

\* the range getPricesForDates requests for a non-empty list of dates
RECURSIVE MinOf(_)
MinOf(s) == IF Len(s) = 1 THEN s[1]
            ELSE LET m == MinOf(Tail(s)) IN IF s[1] < m THEN s[1] ELSE m

RECURSIVE MaxOf(_)
MaxOf(s) == IF Len(s) = 1 THEN s[1]
            ELSE LET m == MaxOf(Tail(s)) IN IF s[1] > m THEN s[1] ELSE m

PricesRange(dates) ==
    [from |-> Midnight(MinOf(dates)), to |-> AddDays(EndOfDay(MaxOf(dates)), 1)]

\* dates.map(date => ({date, price: closestPoint.price}))
MapClosest(dates, dataPoints) ==
    [i \in 1..Len(dates) |-> [date |-> dates[i], price |-> ClosestPoint(dataPoints, dates[i]).price]]

\* getPricesForDates after its await, dates not empty: the reduce of an empty
\* array without an initial value throws a TypeError, which the catch rethrows
getPricesForDates(dates, dataPoints) ==
    IF Len(dataPoints) = 0 THEN [thrown |-> TRUE, prices |-> <<>>]
    ELSE [thrown |-> FALSE, prices |-> MapClosest(dates, dataPoints)]

\* target dates that begin with the test date itself
PredictedDatesFromTestDate(testDate, daysToPredict) ==
    [i \in 1..daysToPredict |-> Midnight(AddDays(testDate, i - 1))]

\* for (i = 1; i <= daysToPredict; i++): testDate + i days at midnight
PredictedDates(testDate, daysToPredict) ==
    [i \in 1..daysToPredict |-> Midnight(AddDays(testDate, i))]

\* what getPricesForDates can settle with for the horizon of testDate, over every
\* answer of the data source to the range it requests; empty: the answer had no point
HorizonAnswers(testDate, daysToPredict, inBatch) ==
    LET dates == PredictedDates(testDate, daysToPredict)
    IN  {[empty |-> Len(dataPoints) = 0, answer |-> getPricesForDates(dates, dataPoints)] :
            dataPoints \in RangeResponses(PricesRange(dates), inBatch)}

\* HorizonAnswers tabulated over the test dates and horizons of the model
HorizonAnswerTable ==
    [testDate \in 0..MaxTime, daysToPredict \in 1..MaxDays, inBatch \in BOOLEAN |->
        HorizonAnswers(testDate, daysToPredict, inBatch)]

\* a fallback that keeps the current price
generateFallbackPredictionFlat(currentPrice, priceChange24h) == [priceTarget |-> currentPrice]

\* priceTarget: currentPrice * (1 + (priceChange24h || 0) / 100)
generateFallbackPrediction(currentPrice, priceChange24h) ==
    [priceTarget |-> Mul(currentPrice, Add(Num(1), Div(OrElse(priceChange24h, Zero), Num(100))))]

\* parsePrediction: a text that is no JSON falls back to generateFallbackPrediction
parsePrediction(text, currentPrice, priceChange24h) ==
    IF text.parsable
    THEN [priceTarget |-> OrElse(text.priceTarget, currentPrice)]
    ELSE generateFallbackPrediction(currentPrice, priceChange24h)

\* ------------------------------------------------------------------------
\* runBacktest: one trial, cut at its three awaits
\* ------------------------------------------------------------------------
StageOrder == <<"historicalFetch", "indicators", "forecast", "realizationFetch", "scoring">>

NoRange == [from |-> 0, to |-> 0]

NoText == [parsable |-> FALSE, priceTarget |-> Null]

NoTrial ==
    [pc |-> "none", testDate |-> 0, daysToPredict |-> 0, histRange |-> NoRange,
     historicalData |-> <<>>, currentPrice |-> Null, prices |-> <<>>,
     indicators |-> NoIndicators, priceChange24h |-> Zero,
     rawResponse |-> NoText, predictedPrice |-> Null,
     predictedDates |-> <<>>, actualRange |-> NoRange, actualPrices |-> <<>>,
     predictedPath |-> <<>>,
     predictedPrices |-> <<>>, actualPriceArray |-> <<>>, mismatch |-> FALSE,
     metrics |-> NoMetrics, error |-> ErrNone, stages |-> <<>>]

\* throw: the promise of runBacktest is rejected with err
Fail(tr, err) == [tr EXCEPT !.pc = "failed", !.error = err]

Enter(tr, stage) == [tr EXCEPT !.stages = Append(@, stage)]

\* steps 1-2 up to the await of getHistoricalData
StartTrial(testDate, daysToPredict) ==
    LET historicalEndDate == Midnight(testDate)
        historicalStartDate == AddDays(historicalEndDate, -HistoryDays)
    IN  [NoTrial EXCEPT !.pc = "hist", !.testDate = testDate, !.daysToPredict = daysToPredict,
                        !.histRange = [from |-> historicalStartDate, to |-> historicalEndDate],
                        !.stages = <<"historicalFetch">>]

\* historicalData.length === 0
EmptyHistory(historicalData) == Len(historicalData) = 0

\* historicalData.map(dp => dp.price).filter(p => p && p > 0)
PositivePrices(historicalData) ==
    SelectSeq(historicalData, LAMBDA p : Truthy(p) /\ Gt(p, Zero))

PriceChange24h(historicalData) ==
    IF Len(historicalData) >= 2
    THEN LET currentPrice == historicalData[Len(historicalData)]
             yesterdayPrice == historicalData[Len(historicalData) - 1]
         IN  Mul(Div(Sub(currentPrice, yesterdayPrice), yesterdayPrice), Num(100))
    ELSE Zero

\* steps 3-5 for a non-empty history, up to the await of model.generateContent
PrepareForecast(tr, historicalData, modelReady) ==
    LET currentPrice == historicalData[Len(historicalData)]
        t1 == [Enter(Enter(tr, "indicators"), "forecast") EXCEPT
                  !.historicalData = historicalData,
                  !.currentPrice = currentPrice,
                  !.prices = PositivePrices(historicalData),
                  !.indicators =
                      calculateAllIndicators(PositivePrices(historicalData), currentPrice),
                  !.priceChange24h = PriceChange24h(historicalData)]
    IN  IF ~modelReady THEN Fail(t1, ErrNotInitialized)
        ELSE IF currentPrice = Null THEN Fail(t1, ErrPrompt)
        ELSE [t1 EXCEPT !.pc = "forecast"]

\* the history handed on without the test for an empty answer
OnHistoricalDataUnchecked(tr, historicalData, modelReady) ==
    IF Len(historicalData) = 0
    THEN Fail(tr, "TypeError: Cannot read properties of undefined (reading 'price')")
    ELSE PrepareForecast(tr, historicalData, modelReady)

\* from the answer of the historical fetch on: the empty answer is thrown out first
OnHistoricalData(tr, historicalData, modelReady) ==
    IF EmptyHistory(historicalData) THEN Fail(tr, ErrNoHistory)
    ELSE PrepareForecast(tr, historicalData, modelReady)

\* from the forecaster's answer up to the await inside getPricesForDates
OnForecastText(tr, text) ==
    LET prediction == parsePrediction(text, tr.currentPrice, tr.priceChange24h)
        predictedPrice == OrElse(prediction.priceTarget, tr.currentPrice)
        predictedDates == PredictedDates(tr.testDate, tr.daysToPredict)
        t1 == [Enter(tr, "realizationFetch") EXCEPT
                  !.rawResponse = text,
                  !.predictedPrice = predictedPrice, !.predictedDates = predictedDates]
    IN  IF Len(predictedDates) = 0 THEN Fail(t1, ErrNoActuals)
        ELSE [t1 EXCEPT !.pc = "actuals", !.actualRange = PricesRange(predictedDates)]

\* a forecaster call that is tried again when it fails
OnForecastErrorRetry(tr) == Enter(tr, "forecast")

\* a forecaster failure that is swallowed: the trial goes on with the current price
OnForecastErrorSwallow(tr) ==
    LET predictedDates == PredictedDates(tr.testDate, tr.daysToPredict)
    IN  IF Len(predictedDates) = 0 THEN Fail(Enter(tr, "realizationFetch"), ErrNoActuals)
        ELSE [Enter(tr, "realizationFetch") EXCEPT
                 !.pc = "actuals", !.predictedPrice = tr.currentPrice,
                 !.predictedDates = predictedDates,
                 !.actualRange = PricesRange(predictedDates)]

\* generateContent rejects: generatePrediction rethrows, runBacktest rethrows
OnForecastError(tr) == Fail(tr, ErrForecaster)

\* the forecast target repeated for every day of the horizon
PredictedPathFlat(currentPrice, predictedPrice, daysToPredict) ==
    [i \in 1..daysToPredict |-> predictedPrice]

\* step 8: the predicted path
PredictedPath(currentPrice, predictedPrice, daysToPredict) ==
    IF daysToPredict = 1 THEN <<predictedPrice>>
    ELSE LET dailyChange == Div(Sub(predictedPrice, currentPrice), Num(daysToPredict))
         IN  [i \in 1..daysToPredict |-> Add(currentPrice, Mul(dailyChange, Num(i)))]

\* actualPrices.map(ap => ap.price).filter(p => p != null && !isNaN(p))
UsablePrices(actualPrices) ==
    SelectSeq([i \in 1..Len(actualPrices) |-> actualPrices[i].price],
              LAMBDA p : p # Null /\ ~IsNaN(p))

MinInt(a, b) == IF a < b THEN a ELSE b

\* no splice: the arrays go to the scorer as they are
ReconcileNot(predicted, actual) == <<predicted, actual>>

\* the splice of both arrays to the shorter length
Reconcile(predicted, actual) ==
    IF Len(predicted) # Len(actual)
    THEN LET minLength == MinInt(Len(predicted), Len(actual))
         IN  <<SubSeq(predicted, 1, minLength), SubSeq(actual, 1, minLength)>>
    ELSE <<predicted, actual>>

\* from the settlement of getPricesForDates to the return of runBacktest
OnActualPrices(tr, answer) ==
    IF answer.thrown THEN Fail(tr, ErrReduceEmpty)
    ELSE LET actualPrices == answer.prices
             predicted == PredictedPath(tr.currentPrice, tr.predictedPrice, tr.daysToPredict)
             usable == UsablePrices(actualPrices)
             cut == Reconcile(predicted, usable)
             metrics == calculateMetrics(cut[1], cut[2], tr.currentPrice)
             t1 == [Enter(tr, "scoring") EXCEPT
                       !.actualPrices = actualPrices, !.predictedPath = predicted,
                       !.predictedPrices = cut[1], !.actualPriceArray = cut[2],
                       !.mismatch = (Len(predicted) # Len(usable))]
         IN  IF Len(actualPrices) = 0 THEN Fail(tr, ErrNoActuals)
             ELSE IF metrics.thrown THEN Fail(t1, ErrLength)
             ELSE [t1 EXCEPT !.pc = "done", !.metrics = metrics]

\* getHistoricalData rejects (network, API error, unsupported asset)
OnDataSourceError(tr) == Fail(tr, ErrDataSource)

\* ------------------------------------------------------------------------
\* runMultipleBacktests
\* ------------------------------------------------------------------------
NoAggregate ==
    [averageMAE |-> Null, averageMAPE |-> Null, averageRMSE |-> Null,
     averageDirectionalAccuracy |-> Null]

NoReport ==
    [dateRange |-> [start |-> 0, end |-> 0], stepDays |-> 0, daysToPredict |-> 0,
     totalTests |-> 0, results |-> <<>>, aggregateMetrics |-> NoAggregate]

NoBatch ==
    [pc |-> "none", startDate |-> 0, endDate |-> 0, stepDays |-> 0, daysToPredict |-> 0,
     currentDate |-> 0, results |-> <<>>, report |-> NoReport]

\* the fields of a trial's result the batch reads or reports
ResultOf(tr) == [testDate |-> IsoDay(tr.testDate), metrics |-> tr.metrics]

\* the loop test written with <
LoopConditionStrict(currentDate, endDate) == currentDate < endDate

\* while (currentDate <= endDate)
LoopCondition(currentDate, endDate) == currentDate <= endDate

\* the object runMultipleBacktests returns
Report(b) ==
    [dateRange |-> [start |-> IsoDay(b.startDate), end |-> IsoDay(b.endDate)],
     stepDays |-> b.stepDays, daysToPredict |-> b.daysToPredict,
     totalTests |-> Len(b.results), results |-> b.results,
     aggregateMetrics |-> calculateAggregateMetrics(b.results)]

\* from the loop condition to the next await, or to the return: <<batch, trial>>
RunLoop(b, tr) ==
    IF LoopCondition(b.currentDate, b.endDate)
    THEN <<[b EXCEPT !.pc = "trial"], StartTrial(b.currentDate, b.daysToPredict)>>
    ELSE <<[b EXCEPT !.pc = "returned", !.report = Report(b)], tr>>

\* currentDate.setDate(currentDate.getDate() + stepDays)
Advance(b) == [b EXCEPT !.currentDate = AddDays(@, b.stepDays)]

\* const results = []; const currentDate = new Date(startDate); the first loop test
StartBatch(startDate, endDate, stepDays, daysToPredict) ==
    RunLoop([NoBatch EXCEPT !.startDate = startDate, !.endDate = endDate,
                            !.stepDays = stepDays, !.daysToPredict = daysToPredict,
                            !.currentDate = startDate], NoTrial)

\* a resolved trial whose result is pushed twice
PushResultTwice(b, tr) ==
    [b EXCEPT !.pc = "sleep", !.results = Append(Append(@, ResultOf(tr)), ResultOf(tr))]

\* the trial resolved: results.push(result), then the one-second pause
PushResult(b, tr) == [b EXCEPT !.pc = "sleep", !.results = Append(@, ResultOf(tr))]

\* the loop without its inner try/catch: the rejection ends runMultipleBacktests
CatchTrialFailureRethrow(b, tr) == <<[b EXCEPT !.pc = "threw"], tr>>

\* the trial rejected: the inner catch logs, the loop goes on
CatchTrialFailure(b, tr) == RunLoop(Advance(b), tr)

\* ------------------------------------------------------------------------
\* State and actions
\* ------------------------------------------------------------------------
\* trial: the running or last call of runBacktest; batch: the call of
\* runMultipleBacktests; geminiModel: whether the constructor got a model;
\* obs: what an observer of the calls has seen, written by no code
VARIABLES trial, batch, geminiModel, obs, call

vars == <<trial, batch, geminiModel, obs, call>>

StartTimes == 0..(TicksPerDay - 1)
EndTimes == {0} \cup ((MaxTime - 1)..MaxTime)
StepVals == {1, 2}
DaysVals == 0..MaxDays

NoObs ==
    [attempted |-> <<>>, failed |-> <<>>, succeeded |-> <<>>,
     hist |-> "none", forecast |-> "none", actual |-> "none"]

\* a call of runBacktest begins: nothing has been answered to it yet
ObserveCall(o, testDate) ==
    [o EXCEPT !.attempted = Append(@, testDate),
              !.hist = "none", !.forecast = "none", !.actual = "none"]

\* after a step of the loop: the trial it started, if it started one
ObserveLoop(o, next) ==
    IF next[1].pc = "trial" /\ next[2].pc = "hist" THEN ObserveCall(o, next[2].testDate) ELSE o

\* no direct call of a pure function of the services is under way
NoCall == [fn |-> "none", pc |-> "none", args |-> <<>>, result |-> <<>>, again |-> <<>>]

Init ==
    /\ trial = NoTrial
    /\ batch = NoBatch
    /\ geminiModel \in BOOLEAN
    /\ obs = NoObs
    /\ call = NoCall

Idle == trial.pc = "none" /\ batch.pc = "none"

InBatch == batch.pc # "none"

\* a caller (the POST /test route) invokes runBacktest
CallRunBacktest ==
    /\ Idle
    /\ \E testDate \in StartTimes, days \in DaysVals :
           /\ trial' = StartTrial(testDate, days)
           /\ obs' = ObserveCall(obs, testDate)
    /\ UNCHANGED <<batch, geminiModel, call>>

\* a caller (the POST /multiple route) invokes runMultipleBacktests
CallRunMultipleBacktests ==
    /\ Idle
    /\ \E startDate \in StartTimes, endDate \in EndTimes, stepDays \in StepVals, days \in DaysVals :
           LET next == StartBatch(startDate, endDate, stepDays, days)
           IN  batch' = next[1] /\ trial' = next[2] /\ obs' = ObserveLoop(obs, next)
    /\ UNCHANGED <<geminiModel, call>>

HistoricalDataReturns ==
    /\ trial.pc = "hist"
    /\ \E data \in HistResponses(InBatch) :
           /\ trial' = OnHistoricalData(trial, data, geminiModel)
           /\ obs' = [obs EXCEPT !.hist = IF Len(data) = 0 THEN "empty" ELSE "data"]
    /\ UNCHANGED <<batch, geminiModel, call>>

HistoricalDataFails ==
    /\ trial.pc = "hist"
    /\ trial' = OnDataSourceError(trial)
    /\ obs' = [obs EXCEPT !.hist = "error"]
    /\ UNCHANGED <<batch, geminiModel, call>>

ForecastReturns ==
    /\ trial.pc = "forecast"
    /\ \E text \in ForecastTexts :
           /\ trial' = OnForecastText(trial, text)
           /\ obs' = [obs EXCEPT !.forecast = IF text.parsable THEN "parsed" ELSE "unparsable"]
    /\ UNCHANGED <<batch, geminiModel, call>>

ForecastFails ==
    /\ trial.pc = "forecast"
    /\ trial' = OnForecastError(trial)
    /\ obs' = [obs EXCEPT !.forecast = "error"]
    /\ UNCHANGED <<batch, geminiModel, call>>

ActualDataReturns ==
    /\ trial.pc = "actuals"
    /\ \E entry \in HorizonAnswerTable[trial.testDate, trial.daysToPredict, InBatch] :
           /\ trial' = OnActualPrices(trial, entry.answer)
           /\ obs' = [obs EXCEPT !.actual = IF entry.empty THEN "empty" ELSE "data"]
    /\ UNCHANGED <<batch, geminiModel, call>>

ActualDataFails ==
    /\ trial.pc = "actuals"
    /\ trial' = OnDataSourceError(trial)
    /\ obs' = [obs EXCEPT !.actual = "error"]
    /\ UNCHANGED <<batch, geminiModel, call>>

\* the await of runBacktest in the loop resumes with the result
TrialResolved ==
    /\ batch.pc = "trial"
    /\ trial.pc = "done"
    /\ batch' = PushResult(batch, trial)
    /\ obs' = [obs EXCEPT !.succeeded =
                   Append(@, [testDate |-> trial.testDate, metrics |-> trial.metrics])]
    /\ UNCHANGED <<trial, geminiModel, call>>

\* the await of runBacktest in the loop resumes with the rejection
TrialRejected ==
    /\ batch.pc = "trial"
    /\ trial.pc = "failed"
    /\ LET next == CatchTrialFailure(batch, trial)
       IN  /\ batch' = next[1]
           /\ trial' = next[2]
           /\ obs' = ObserveLoop([obs EXCEPT !.failed = Append(@, trial.testDate)], next)
    /\ UNCHANGED <<geminiModel, call>>

\* the one-second timer fires
SleepElapses ==
    /\ batch.pc = "sleep"
    /\ LET next == RunLoop(Advance(batch), trial)
       IN  batch' = next[1] /\ trial' = next[2] /\ obs' = ObserveLoop(obs, next)
    /\ UNCHANGED <<geminiModel, call>>

Next ==
    \/ CallRunBacktest
    \/ CallRunMultipleBacktests
    \/ HistoricalDataReturns
    \/ HistoricalDataFails
    \/ ForecastReturns
    \/ ForecastFails
    \/ ActualDataReturns
    \/ ActualDataFails
    \/ TrialResolved
    \/ TrialRejected
    \/ SleepElapses

Spec == Init /\ [][Next]_vars

\* the trial awaits the data source or the forecaster
AwaitsExternalCall == trial.pc \in {"hist", "forecast", "actuals"}

\* the loop awaits runBacktest, whose promise has been rejected
AwaitsRejectedTrial == batch.pc = "trial" /\ trial.pc = "failed"

\* the loop awaits the one-second timer
AwaitsTimer == batch.pc = "sleep"

\* Each await is left by the steps that settle it and by no other step, so weak
\* fairness of those steps is that the await does not last for ever: every
\* external call eventually returns or fails, the timer fires, and a settled
\* promise resumes the loop that awaits it.
Fairness ==
    /\ []<>~AwaitsExternalCall
    /\ []<>~AwaitsTimer
    /\ []<>~AwaitsRejectedTrial
    /\ WF_vars(TrialResolved)

FairSpec == Spec /\ Fairness

\* ------------------------------------------------------------------------
\* calculateMetrics called on its own
\* ------------------------------------------------------------------------
RECURSIVE SeqsUpTo(_, _)
SeqsUpTo(S, k) ==
    IF k = 0 THEN {<<>>}
    ELSE LET shorter == SeqsUpTo(S, k - 1)
         IN  shorter \cup {Append(q, x) : q \in {r \in shorter : Len(r) = k - 1}, x \in S}

\* prices handed to the scorer
ScorePrices == {Zero, Num(100), Num(105)}

ScoreSeqs == SeqsUpTo(ScorePrices, MaxLen)

ScorerArgs ==
    [predicted : ScoreSeqs, actual : ScoreSeqs, currentPrice : ScorePrices]

\* the runner is at rest while a pure function is called directly
RunnerAtRest ==
    /\ trial = NoTrial
    /\ batch = NoBatch
    /\ geminiModel = TRUE
    /\ obs = NoObs

ScorerInit ==
    /\ RunnerAtRest
    /\ call \in {[fn |-> "calculateMetrics", pc |-> "called", args |-> a,
                  result |-> NoMetrics, again |-> NoMetrics] : a \in ScorerArgs}

\* calculateMetrics(predictedPrices, actualPrices, currentPrice) returns or throws
CalculateMetricsReturns ==
    /\ call.fn = "calculateMetrics"
    /\ call.pc = "called"
    /\ call' = [call EXCEPT
                   !.pc = "returned",
                   !.result = calculateMetrics(call.args.predicted, call.args.actual,
                                               call.args.currentPrice)]
    /\ UNCHANGED <<trial, batch, geminiModel, obs>>

\* a second call that keeps the anchor price and the first element of either
\* sequence, and drops the later elements
CalculateMetricsAgain ==
    /\ call.fn = "calculateMetrics"
    /\ call.pc = "returned"
    /\ Len(call.args.predicted) >= 1
    /\ Len(call.args.actual) >= 1
    /\ call' = [call EXCEPT
                   !.pc = "returnedAgain",
                   !.again = calculateMetrics(<<call.args.predicted[1]>>,
                                              <<call.args.actual[1]>>,
                                              call.args.currentPrice)]
    /\ UNCHANGED <<trial, batch, geminiModel, obs>>

ScorerNext ==
    \/ CalculateMetricsReturns
    \/ CalculateMetricsAgain

ScorerSpec == ScorerInit /\ [][ScorerNext]_vars

\* ------------------------------------------------------------------------
\* The indicators called on their own
\* ------------------------------------------------------------------------
\* prices at the end of a series handed to calculateAllIndicators; 0 is a
\* value calculateAllIndicators filters out
TailPrices == {Zero, Num(1), Num(2)}

\* the price the series stays at before its last elements
FlatPrices == {Num(1), Num(2)}

\* the series of a given length: a flat run followed by up to MaxTail free prices
FlatThenTail(len, flat, tail) ==
    [i \in 1..len |-> IF i <= len - Len(tail) THEN flat ELSE tail[i - (len - Len(tail))]]

AllIndicatorsArgs ==
    {[prices |-> FlatThenTail(len, flat, tail), currentPrice |-> flat] :
        len \in 0..MaxPrices, flat \in FlatPrices,
        tail \in SeqsUpTo(TailPrices, MaxTail)}

\* prices of the series handed to calculateRSI
RsiPrices == {Num(1), Num(2), Num(4)}

\* a series that repeats a pattern of prices, on a ramp of slope 1, 0 or -1 a step
PatternOnRamp(len, pattern, slope) ==
    [i \in 1..len |->
        Add(pattern[((i - 1) % Len(pattern)) + 1],
            Num(IF slope >= 0 THEN slope * (i - 1) ELSE (-slope) * (len - i)))]

RsiArgs ==
    {[prices |-> PatternOnRamp(len, pattern, slope), period |-> 14] :
        len \in 0..MaxPrices,
        pattern \in {p \in SeqsUpTo(RsiPrices, MaxPattern) : Len(p) >= 1},
        slope \in {-1, 0, 1}}

\* prices of the short series handed to calculateVolatility
VolatilityPrices == {Num(1), Num(2), Num(4)}

\* series handed to calculateVolatility: every short series of positive prices,
\* and the longer ones that stay flat before their last elements
VolatilityArgs ==
    {[prices |-> p] : p \in SeqsUpTo(VolatilityPrices, MaxTail + 1)}
    \cup {[prices |-> FlatThenTail(len, flat, tail)] :
              len \in 0..MaxPrices, flat \in FlatPrices,
              tail \in SeqsUpTo(FlatPrices, MaxTail)}

\* example scenario 1 of the indicators: ten prices from 100 to 115
ExamplePrices ==
    <<Num(100), Num(102), Num(101), Num(105), Num(108),
      Num(107), Num(110), Num(112), Num(111), Num(115)>>

\* first and last prices of the series handed to calculateTrend: changes of
\* -2, -1, 0, 1, 2 and 15 percent
TrendFirstPrices == {Num(100)}
TrendLastPrices == {Num(98), Num(99), Num(100), Num(101), Num(102), Num(115)}
TrendMiddlePrices == {Num(100), Num(110)}

\* a series of a given length with its first, middle and last prices
FirstMiddleLast(len, first, middle, last) ==
    [i \in 1..len |-> IF i = 1 THEN first ELSE IF i = len THEN last ELSE middle]

TrendArgs ==
    {[prices |-> ExamplePrices]}
    \cup {[prices |-> FirstMiddleLast(len, first, middle, last)] :
              len \in 0..MaxPrices, first \in TrendFirstPrices,
              middle \in TrendMiddlePrices, last \in TrendLastPrices}

IndicatorInit ==
    /\ RunnerAtRest
    /\ call \in {[fn |-> "calculateAllIndicators", pc |-> "called", args |-> a,
                  result |-> NoIndicators, again |-> <<>>] : a \in AllIndicatorsArgs}
              \cup {[fn |-> "calculateRSI", pc |-> "called", args |-> a,
                     result |-> Null, again |-> <<>>] : a \in RsiArgs}
              \cup {[fn |-> "calculateVolatility", pc |-> "called", args |-> a,
                     result |-> Null, again |-> <<>>] : a \in VolatilityArgs}
              \cup {[fn |-> "calculateTrend", pc |-> "called", args |-> a,
                     result |-> NeutralTrend, again |-> <<>>] : a \in TrendArgs}

\* calculateAllIndicators(prices, currentPrice) returns
CalculateAllIndicatorsReturns ==
    /\ call.fn = "calculateAllIndicators"
    /\ call.pc = "called"
    /\ call' = [call EXCEPT
                   !.pc = "returned",
                   !.result = calculateAllIndicators(call.args.prices, call.args.currentPrice)]
    /\ UNCHANGED <<trial, batch, geminiModel, obs>>

\* calculateRSI(prices, period) returns
CalculateRSIReturns ==
    /\ call.fn = "calculateRSI"
    /\ call.pc = "called"
    /\ call' = [call EXCEPT
                   !.pc = "returned",
                   !.result = calculateRSI(call.args.prices, call.args.period)]
    /\ UNCHANGED <<trial, batch, geminiModel, obs>>

\* calculateVolatility(prices) returns
CalculateVolatilityReturns ==
    /\ call.fn = "calculateVolatility"
    /\ call.pc = "called"
    /\ call' = [call EXCEPT !.pc = "returned",
                            !.result = calculateVolatility(call.args.prices)]
    /\ UNCHANGED <<trial, batch, geminiModel, obs>>

\* calculateTrend(prices) returns
CalculateTrendReturns ==
    /\ call.fn = "calculateTrend"
    /\ call.pc = "called"
    /\ call' = [call EXCEPT !.pc = "returned",
                            !.result = calculateTrend(call.args.prices)]
    /\ UNCHANGED <<trial, batch, geminiModel, obs>>

IndicatorNext ==
    \/ CalculateAllIndicatorsReturns
    \/ CalculateRSIReturns
    \/ CalculateVolatilityReturns
    \/ CalculateTrendReturns

IndicatorSpec == IndicatorInit /\ [][IndicatorNext]_vars

\* ------------------------------------------------------------------------
\* The POST /api/backtesting/test route
\* ------------------------------------------------------------------------
\* a JSON value of the request body: undefined (the field is missing), null, a
\* string (the sequence of its characters) or a number
JsUndefined == [type |-> "undefined", str |-> <<>>, num |-> NaN]
JsNull == [type |-> "null", str |-> <<>>, num |-> NaN]
JsString(chars) == [type |-> "string", str |-> chars, num |-> NaN]
JsNumber(x) == [type |-> "number", str |-> <<>>, num |-> x]

\* !value
Falsy(v) ==
    \/ v.type \in {"undefined", "null"}
    \/ v.type = "string" /\ v.str = <<>>
    \/ v.type = "number" /\ (IsNaN(v.num) \/ v.num = Zero)

LowerChars ==
    <<"a", "b", "c", "d", "e", "f", "g", "h", "i", "j", "k", "l", "m",
      "n", "o", "p", "q", "r", "s", "t", "u", "v", "w", "x", "y", "z">>
UpperChars ==
    <<"A", "B", "C", "D", "E", "F", "G", "H", "I", "J", "K", "L", "M",
      "N", "O", "P", "Q", "R", "S", "T", "U", "V", "W", "X", "Y", "Z">>

UpperChar(c) ==
    IF \E i \in 1..Len(LowerChars) : LowerChars[i] = c
    THEN UpperChars[CHOOSE i \in 1..Len(LowerChars) : LowerChars[i] = c]
    ELSE c

\* string.toUpperCase()
ToUpperCase(chars) == [i \in 1..Len(chars) |-> UpperChar(chars[i])]

DigitChars == <<"0", "1", "2", "3", "4", "5", "6", "7", "8", "9">>

IsDigit(c) == \E i \in 1..Len(DigitChars) : DigitChars[i] = c

DigitValue(c) == (CHOOSE i \in 1..Len(DigitChars) : DigitChars[i] = c) - 1

\* the decimal digits of a natural number
RECURSIVE DigitsOf(_)
DigitsOf(k) ==
    IF k < 10 THEN <<DigitChars[k + 1]>>
    ELSE Append(DigitsOf(k \div 10), DigitChars[(k % 10) + 1])

\* the digits after the point of num / den < 1, for a decimal that ends
RECURSIVE FractionDigits(_, _)
FractionDigits(num, den) ==
    IF num = 0 THEN <<>>
    ELSE <<DigitChars[((num * 10) \div den) + 1]>> \o FractionDigits((num * 10) % den, den)

\* String(x) of a number
NumberToString(x) ==
    IF IsNaN(x) THEN <<"N", "a", "N">>
    ELSE LET whole == AbsInt(x.n) \div x.d
             rest == AbsInt(x.n) % x.d
         IN  (IF x.n < 0 THEN <<"-">> ELSE <<>>)
             \o DigitsOf(whole)
             \o (IF rest = 0 THEN <<>> ELSE <<".">> \o FractionDigits(rest, x.d))

\* String(value), what parseInt applies to its first argument
ToStringJs(v) ==
    IF v.type = "string" THEN v.str
    ELSE IF v.type = "number" THEN NumberToString(v.num)
    ELSE IF v.type = "null" THEN <<"n", "u", "l", "l">>
    ELSE <<"u", "n", "d", "e", "f", "i", "n", "e", "d">>

\* the value of the digits read from position i on, stopping at the first
\* character that is no digit
RECURSIVE ReadDigits(_, _, _)
ReadDigits(chars, i, acc) ==
    IF i > Len(chars) \/ ~IsDigit(chars[i]) THEN acc
    ELSE ReadDigits(chars, i + 1, acc * 10 + DigitValue(chars[i]))

RECURSIVE SkipSpaces(_, _)
SkipSpaces(chars, i) ==
    IF i <= Len(chars) /\ chars[i] = " " THEN SkipSpaces(chars, i + 1) ELSE i

\* parseInt(chars, 10): leading blanks, a sign, then digits up to the first
\* other character; NaN when there is no digit
ParseInt(chars) ==
    LET start == SkipSpaces(chars, 1)
        signed == start <= Len(chars) /\ chars[start] \in {"-", "+"}
        first == IF signed THEN start + 1 ELSE start
        value == ReadDigits(chars, first, 0)
    IN  IF first > Len(chars) \/ ~IsDigit(chars[first]) THEN NaN
        ELSE Num(IF signed /\ chars[start] = "-" THEN -value ELSE value)

\* the days from 1970-01-01 to a day of the Gregorian calendar
DaysFromCivil(year, month, day) ==
    LET y == IF month <= 2 THEN year - 1 ELSE year
        era == y \div 400
        yoe == y - era * 400
        doy == (153 * (IF month > 2 THEN month - 3 ELSE month + 9) + 2) \div 5 + day - 1
        doe == yoe * 365 + yoe \div 4 - yoe \div 100 + doy
    IN  era * 146097 + doe - 719468

IsLeapYear(year) == year % 4 = 0 /\ (year % 100 # 0 \/ year % 400 = 0)

DaysInMonth(year, month) ==
    IF month = 2 THEN (IF IsLeapYear(year) THEN 29 ELSE 28)
    ELSE IF month \in {4, 6, 9, 11} THEN 30 ELSE 31

\* the day that is tick 0 of the model: 2024-07-15, the date of the route's example
EpochDay == DaysFromCivil(2024, 7, 15)

\* new Date(chars).getTime() for a text of the form YYYY-MM-DD, in ticks; NaN for
\* a text that is no such date
DateParse(chars) ==
    IF Len(chars) # 10 \/ chars[5] # "-" \/ chars[8] # "-"
       \/ \E i \in {1, 2, 3, 4, 6, 7, 9, 10} : ~IsDigit(chars[i])
    THEN NaN
    ELSE LET year == ReadDigits(chars, 1, 0)
             month == ReadDigits(chars, 6, 0)
             day == ReadDigits(chars, 9, 0)
         IN  IF month \notin 1..12 \/ day \notin 1..DaysInMonth(year, month) THEN NaN
             ELSE Num((DaysFromCivil(year, month, day) - EpochDay) * TicksPerDay)

\* new Date(testDate).getTime() of a truthy body value
NewDate(v) == IF v.type = "string" THEN DateParse(v.str) ELSE NaN

ValidAssets == {<<"B", "T", "C">>, <<"E", "T", "H">>, <<"F", "L", "R">>}

\* the largest horizon and the smallest the route lets through
MaxDaysToPredict == 30
MinDaysToPredict == 1

NoResponse ==
    [status |-> 0, error |-> "none", invoked |-> FALSE, asset |-> <<>>, testDate |-> 0, days |-> 0]

Answer(status, error) == [NoResponse EXCEPT !.status = status, !.error = error]

\* parseInt(daysToPredict, 10)
ParseDays(daysToPredict) == ParseInt(ToStringJs(daysToPredict))

\* the handler of POST /test from the request to its first await, or to the
\* answer it gives without calling the service; now: new Date() of line 38
PostTest(body, now) ==
    LET asset == body.asset
        testDate == body.testDate
        daysToPredict == IF body.daysToPredict.type = "undefined"
                         THEN JsNumber(Num(1)) ELSE body.daysToPredict
        testDateObj == NewDate(testDate)
        days == ParseDays(daysToPredict)
    IN  IF Falsy(asset) \/ Falsy(testDate)
        THEN Answer(400, "Missing required parameters: asset and testDate are required")
        ELSE IF asset.type # "string"
        THEN Answer(500, "asset.toUpperCase is not a function")
        ELSE IF ToUpperCase(asset.str) \notin ValidAssets
        THEN Answer(400, "Invalid asset. Must be one of: BTC, ETH, FLR")
        ELSE IF IsNaN(testDateObj)
        THEN Answer(400, "Invalid date format. Use YYYY-MM-DD format")
        ELSE IF ~Lt(testDateObj, Num(now))
        THEN Answer(400, "Test date must be in the past")
        ELSE IF IsNaN(days) \/ Lt(days, Num(MinDaysToPredict)) \/ Gt(days, Num(MaxDaysToPredict))
        THEN Answer(400, "daysToPredict must be between 1 and 30")
        ELSE [NoResponse EXCEPT !.invoked = TRUE, !.asset = ToUpperCase(asset.str),
                                !.testDate = testDateObj.n, !.days = days.n]

\* request bodies
BodyAssets ==
    {JsUndefined, JsString(<<>>), JsString(<<"B", "T", "C">>), JsString(<<"f", "l", "r">>),
     JsString(<<"D", "O", "G", "E">>), JsNumber(Num(7))}

DateText(day) == <<"2", "0", "2", "4", "-", "0", "7", "-">> \o DigitsOf(day)

BodyTestDates ==
    {JsUndefined, JsString(<<"s", "o", "o", "n">>), JsString(<<"2", "0", "2", "4", "-", "0", "7", "-", "3", "2">>),
     JsString(DateText(15)), JsString(DateText(16)), JsString(DateText(17))}

BodyDays ==
    {JsUndefined, JsNull, JsNumber(Zero), JsNumber(Num(1)), JsNumber(Num(MaxDaysToPredict)),
     JsNumber(Num(MaxDaysToPredict + 1)), JsNumber(Rat(5, 2)), JsNumber(Num(-1)),
     JsString(<<"2">>), JsString(<<"2", "d">>), JsString(<<"d">>)}

\* the time of the request: the second day of the model, at and after midnight
NowTimes == {TicksPerDay, TicksPerDay + 1}

RouteArgs ==
    {[body |-> [asset |-> a, testDate |-> t, daysToPredict |-> d], now |-> n] :
        a \in BodyAssets, t \in BodyTestDates, d \in BodyDays, n \in NowTimes}

RouteInit ==
    /\ RunnerAtRest
    /\ call \in {[fn |-> "POST /test", pc |-> "received", args |-> a,
                  result |-> NoResponse, again |-> <<>>] : a \in RouteArgs}

\* the handler runs up to its answer, or up to the first await of runBacktest
PostTestHandles ==
    /\ call.fn = "POST /test"
    /\ call.pc = "received"
    /\ LET r == PostTest(call.args.body, call.args.now)
       IN  IF r.invoked
           THEN /\ call' = [call EXCEPT !.pc = "awaiting", !.result = r]
                /\ trial' = StartTrial(r.testDate, r.days)
                /\ obs' = ObserveCall(obs, r.testDate)
           ELSE /\ call' = [call EXCEPT !.pc = "responded", !.result = r]
                /\ UNCHANGED <<trial, obs>>
    /\ UNCHANGED <<batch, geminiModel>>

\* the horizon fetch answers; the answers are tabulated for horizons up to MaxDays
HorizonDataReturns ==
    /\ trial.daysToPredict <= MaxDays
    /\ ActualDataReturns

\* runBacktest settles: res.json({success: true, ...}) or the catch's status 500
PostTestResponds ==
    /\ call.fn = "POST /test"
    /\ call.pc = "awaiting"
    /\ trial.pc \in {"done", "failed"}
    /\ call' = [call EXCEPT !.pc = "responded",
                            !.result = [@ EXCEPT !.status = IF trial.pc = "done" THEN 200 ELSE 500,
                                                 !.error = trial.error]]
    /\ UNCHANGED <<trial, batch, geminiModel, obs>>

RouteNext ==
    \/ PostTestHandles
    \/ HistoricalDataReturns
    \/ HistoricalDataFails
    \/ ForecastReturns
    \/ ForecastFails
    \/ HorizonDataReturns
    \/ ActualDataFails
    \/ PostTestResponds

RouteSpec == RouteInit /\ [][RouteNext]_vars

\* ------------------------------------------------------------------------
\* getPricesForDates called on its own
\* ------------------------------------------------------------------------
\* the dates of a horizon of at most this many days, and an answer of the data
\* source to the range getPricesForDates requests for them
PricesArgs(horizon) ==
    UNION {{[dates |-> PredictedDates(testDate, days), dataPoints |-> dataPoints] :
               dataPoints \in RangeResponses(PricesRange(PredictedDates(testDate, days)), FALSE)} :
           testDate \in StartTimes, days \in 1..horizon}

NoPrices == [thrown |-> FALSE, prices |-> <<>>]

PricesInit ==
    /\ RunnerAtRest
    /\ call \in {[fn |-> "getPricesForDates", pc |-> "called", args |-> a,
                  result |-> NoPrices, again |-> <<>>] : a \in PricesArgs(MaxDays)}

\* getPricesForDates(asset, dates) settles, the data source having answered
GetPricesForDatesSettles ==
    /\ call.fn = "getPricesForDates"
    /\ call.pc = "called"
    /\ call' = [call EXCEPT !.pc = "returned",
                            !.result = getPricesForDates(call.args.dates, call.args.dataPoints)]
    /\ UNCHANGED <<trial, batch, geminiModel, obs>>

PricesNext == GetPricesForDatesSettles

PricesSpec == PricesInit /\ [][PricesNext]_vars

\* ------------------------------------------------------------------------
\* calculateMetrics before its results are rounded by toFixed
\* ------------------------------------------------------------------------
\* A JavaScript number is a binary floating-point number: a significand of 53
\* bits times a power of two. Every +, -, *, / and Math.sqrt gives the exact
\* result rounded to the nearest such number, a tie going to the even
\* significand. The operators below are that arithmetic with SignificandBits
\* bits of significand in place of 53 and an exponent without limits: the
\* rounding rule is the one of the language, its grain is coarser.
SignificandBits == 8

\* the longest series handed to calculateMetrics here
MaxSeries == 3

RECURSIVE Pow2(_)
Pow2(k) == IF k = 0 THEN 1 ELSE 2 * Pow2(k - 1)

\* n/d > 0 rounded to SignificandBits bits, ties to even
RECURSIVE RoundPositive(_, _)
RoundPositive(n, d) ==
    IF n >= Pow2(SignificandBits) * d THEN Mul(Num(2), RoundPositive(n, 2 * d))
    ELSE IF n < Pow2(SignificandBits - 1) * d THEN Div(RoundPositive(2 * n, d), Num(2))
    ELSE LET m == n \div d
             r == n % d
             up == IF 2 * r > d \/ (2 * r = d /\ m % 2 = 1) THEN 1 ELSE 0
         IN  Num(m + up)

\* the floating-point number nearest to x
Fl(x) ==
    IF ~IsFinite(x) \/ x.n = 0 THEN x
    ELSE IF x.n < 0 THEN Neg(RoundPositive(-x.n, x.d))
    ELSE RoundPositive(x.n, x.d)

\* the largest r of lo..(hi - 1) with r * r <= n/d, where lo * lo <= n/d < hi * hi
RECURSIVE SqrtBetween(_, _, _, _)
SqrtBetween(n, d, lo, hi) ==
    IF hi - lo <= 1 THEN lo
    ELSE LET mid == (lo + hi) \div 2
         IN  IF mid * mid * d <= n THEN SqrtBetween(n, d, mid, hi)
             ELSE SqrtBetween(n, d, lo, mid)

\* the square root of n/d > 0 rounded to SignificandBits bits, ties to even
RECURSIVE SqrtPositive(_, _)
SqrtPositive(n, d) ==
    IF n >= Pow2(2 * SignificandBits) * d THEN Mul(Num(2), SqrtPositive(n, 4 * d))
    ELSE IF n < Pow2(2 * SignificandBits - 2) * d THEN Div(SqrtPositive(4 * n, d), Num(2))
    ELSE LET r == SqrtBetween(n, d, Pow2(SignificandBits - 1), Pow2(SignificandBits))
             half == (2 * r + 1) * (2 * r + 1) * d
             up == IF 4 * n > half \/ (4 * n = half /\ r % 2 = 1) THEN 1 ELSE 0
         IN  Num(r + up)

\* Math.sqrt(x) of a floating-point number
FlSqrt(x) ==
    IF IsNaN(x) \/ x = NegInfinity THEN NaN
    ELSE IF x = Infinity THEN Infinity
    ELSE IF x.n < 0 THEN NaN
    ELSE IF x.n = 0 THEN x
    ELSE SqrtPositive(x.n, x.d)

\* a + b, a - b, a * b, a / b of floating-point numbers
FlAdd(a, b) == Fl(Add(a, b))
FlSub(a, b) == Fl(Sub(a, b))
FlMul(a, b) == Fl(Mul(a, b))
FlDiv(a, b) == Fl(Div(a, b))

\* errors.reduce((sum, err) => sum + err, 0) over the first k errors
RECURSIVE ReduceSum(_, _)
ReduceSum(errors, k) ==
    IF k = 0 THEN Zero ELSE FlAdd(ReduceSum(errors, k - 1), errors[k])

\* errors.reduce((sum, err) => sum + err * err, 0) over the first k errors
RECURSIVE ReduceSquares(_, _)
ReduceSquares(errors, k) ==
    IF k = 0 THEN Zero
    ELSE FlAdd(ReduceSquares(errors, k - 1), FlMul(errors[k], errors[k]))

NoUnrounded ==
    [thrown |-> FALSE, errors |-> <<>>, mae |-> Null, mse |-> Null, rmse |-> Null]

\* errors, mae, mse and rmse of calculateMetrics as they stand before the
\* return statement rounds them
UnroundedMetrics(predicted, actual) ==
    IF Len(predicted) # Len(actual) THEN [NoUnrounded EXCEPT !.thrown = TRUE]
    ELSE LET errors == [i \in 1..Len(predicted) |->
                           Abs(FlSub(predicted[i], actual[i]))]
             length == Num(Len(errors))
             mae == FlDiv(ReduceSum(errors, Len(errors)), length)
             mse == FlDiv(ReduceSquares(errors, Len(errors)), length)
             rmse == FlSqrt(mse)
         IN  [thrown |-> FALSE, errors |-> errors, mae |-> mae, mse |-> mse,
              rmse |-> rmse]

\* prices that are floating-point numbers at SignificandBits bits
SeriesPrices == {Zero, Num(100), Num(121)}

SeriesArgs ==
    [predicted : SeqsUpTo(SeriesPrices, MaxSeries),
     actual : SeqsUpTo(SeriesPrices, MaxSeries)]

UnroundedInit ==
    /\ RunnerAtRest
    /\ call \in {[fn |-> "calculateMetrics", pc |-> "scoring", args |-> a,
                  result |-> NoUnrounded] : a \in SeriesArgs}

\* calculateMetrics reaches its return statement, or throws
CalculateMetricsScores ==
    /\ call.fn = "calculateMetrics"
    /\ call.pc = "scoring"
    /\ call' = [call EXCEPT
                   !.pc = "scored",
                   !.result = UnroundedMetrics(call.args.predicted, call.args.actual)]
    /\ UNCHANGED <<trial, batch, geminiModel, obs>>

UnroundedNext == CalculateMetricsScores

UnroundedSpec == UnroundedInit /\ [][UnroundedNext]_vars

\* ------------------------------------------------------------------------
\* Claims
\* ------------------------------------------------------------------------
Returned == batch.pc = "returned"

\* the k-th date of the range, k = 1, 2, ...: startDate + (k - 1) * stepDays days
RangeDate(b, k) == b.startDate + (k - 1) * b.stepDays * TicksPerDay

\* how many dates of the range are <= endDate
RangeCount(b) ==
    IF b.startDate > b.endDate THEN 0
    ELSE ((b.endDate - b.startDate) \div (b.stepDays * TicksPerDay)) + 1

InSeq(x, s) == \E i \in 1..Len(s) : s[i] = x

\* the elements of s that are not in t, in the order of s
RECURSIVE Without(_, _)
Without(s, t) ==
    IF s = <<>> THEN <<>>
    ELSE IF InSeq(Head(s), t) THEN Without(Tail(s), t)
    ELSE <<Head(s)>> \o Without(Tail(s), t)

\* C1: a trial that fails, at whatever stage, is left out of the results and of the
\* aggregate, every date of the range is still attempted, and the batch returns
\* normally with totalTests the number of trials that succeeded.
C1_FailedTrialsAreExcluded ==
    /\ batch.pc \in {"none", "trial", "sleep", "returned"}
    /\ Returned =>
          /\ Len(obs.attempted) = RangeCount(batch)
          /\ batch.report.totalTests = Len(obs.attempted) - Len(obs.failed)
          /\ batch.report.totalTests = Len(obs.succeeded)
          /\ [i \in 1..Len(batch.report.results) |-> batch.report.results[i].testDate]
                = [i \in 1..Len(Without(obs.attempted, obs.failed)) |->
                      IsoDay(Without(obs.attempted, obs.failed)[i])]
          /\ \A i \in 1..Len(batch.report.results) :
                batch.report.results[i].metrics = obs.succeeded[i].metrics
          /\ batch.report.aggregateMetrics
                = calculateAggregateMetrics([i \in 1..Len(obs.succeeded) |->
                                                [metrics |-> obs.succeeded[i].metrics]])

\* three dates were attempted, only the second failed, the batch has returned
C1_Witness ==
    /\ Returned
    /\ Len(obs.attempted) = 3
    /\ obs.failed = <<obs.attempted[2]>>
    /\ batch.report.totalTests = 2

\* C2: the dates attempted are exactly startDate + k * stepDays days, k = 0, 1, ...,
\* that are <= endDate, endDate included when it is reached exactly.
C2_AttemptedDates ==
    InBatch =>
       /\ \A i \in 1..Len(obs.attempted) :
             obs.attempted[i] = RangeDate(batch, i) /\ obs.attempted[i] <= batch.endDate
       /\ Returned => Len(obs.attempted) = RangeCount(batch)

\* a batch of at least two dates whose last attempted date is endDate itself
C2_Witness ==
    /\ Returned
    /\ Len(obs.attempted) >= 2
    /\ obs.attempted[Len(obs.attempted)] = batch.endDate

\* the arithmetic mean of one metric over the results, reported at k decimals;
\* a metric that is NaN makes the mean NaN
MeanOfMetric(results, field, k) ==
    ToFixed(Div(SumSeq([i \in 1..Len(results) |-> results[i].metrics[field]]),
                Num(Len(results))), k)

\* C3: each average of the aggregate is the arithmetic mean of that metric over
\* exactly the trials that succeeded; with no such trial all four are 0.
C3_AggregateIsMean ==
    Returned =>
       LET results == batch.report.results
           agg == batch.report.aggregateMetrics
       IN  IF Len(results) = 0
           THEN /\ agg.averageMAE = Zero
                /\ agg.averageMAPE = Zero
                /\ agg.averageRMSE = Zero
                /\ agg.averageDirectionalAccuracy = Zero
           ELSE /\ agg.averageMAE = MeanOfMetric(results, "mae", MoneyDigits)
                /\ agg.averageMAPE = MeanOfMetric(results, "mape", PercentDigits)
                /\ agg.averageRMSE = MeanOfMetric(results, "rmse", MoneyDigits)
                /\ agg.averageDirectionalAccuracy
                      = MeanOfMetric(results, "directionalAccuracy", MoneyDigits)

\* C4: the returned report carries the number of trials attempted as well as the
\* number that succeeded.
C4_ReportCountsAttempted ==
    Returned =>
       /\ batch.report.totalTests = Len(obs.succeeded)
       /\ \E field \in {"totalTests", "stepDays", "daysToPredict"} :
             batch.report[field] = Len(obs.attempted)

IsPrefixOf(s, t) == Len(s) <= Len(t) /\ \A i \in 1..Len(s) : s[i] = t[i]

TrialStarted == trial.pc # "none"

\* C5: the stages of a trial are entered in the fixed order historical fetch,
\* indicators, forecast, realization fetch, scoring, each at most once, the next
\* one only when the previous one is over, and never an earlier one again.
C5_StagesInOrder ==
    TrialStarted =>
       /\ IsPrefixOf(trial.stages, StageOrder)
       /\ trial.pc = "hist" => trial.stages = SubSeq(StageOrder, 1, 1) /\ obs.hist = "none"
       /\ trial.pc = "forecast" =>
             trial.stages = SubSeq(StageOrder, 1, 3) /\ obs.hist = "data" /\ obs.forecast = "none"
       /\ trial.pc = "actuals" =>
             /\ trial.stages = SubSeq(StageOrder, 1, 4)
             /\ obs.forecast \in {"parsed", "unparsable"}
             /\ obs.actual = "none"
       /\ trial.pc = "done" => trial.stages = StageOrder /\ obs.actual = "data"

\* a trial that went through all five stages
C5_Witness == trial.pc = "done" /\ trial.stages = StageOrder

ForecastStageFailures == {ErrForecaster, ErrNotInitialized, ErrPrompt}

\* the forecaster failed in the trial: its call ended without a text
ForecasterFailed ==
    \/ obs.forecast = "error"
    \/ trial.pc = "failed" /\ trial.error \in {ErrNotInitialized, ErrPrompt}

\* C6: when the forecaster call fails, runBacktest ends in failure without
\* fetching realized prices and without metrics; in a batch the loop then goes on
\* to the next date of the range, if there is one.
C6_ForecastFailureAbortsTrial ==
    [][/\ ForecasterFailed' =>
             /\ trial'.pc = "failed"
             /\ trial'.error \in ForecastStageFailures
             /\ ~InSeq("realizationFetch", trial'.stages)
             /\ obs'.actual = "none"
             /\ trial'.actualPrices = <<>>
             /\ trial'.metrics = NoMetrics
       /\ (ForecasterFailed /\ batch.pc = "trial" /\ batch' # batch) =>
             IF AddDays(trial.testDate, batch.stepDays) <= batch.endDate
             THEN /\ batch'.pc = "trial"
                  /\ trial' = StartTrial(AddDays(trial.testDate, batch.stepDays),
                                         batch.daysToPredict)
                  /\ batch'.results = batch.results
             ELSE /\ batch'.pc = "returned"
                  /\ batch'.report.results = batch.results]_vars

\* the forecaster's call was rejected in a trial of a batch with a later date left
C6_Witness ==
    /\ obs.forecast = "error"
    /\ trial.pc = "failed"
    /\ batch.pc = "trial"
    /\ AddDays(trial.testDate, batch.stepDays) <= batch.endDate

Unparsable == obs.forecast = "unparsable"

\* C7 as claimed: a forecaster text that cannot be parsed fails the trial, no
\* trial with metrics comes out of it.
C7_UnparsableFailsTrial == Unparsable => trial.pc # "done"

\* the forecast the code falls back to: the last 24h change applied once more
FallbackTarget(historicalData) ==
    LET currentPrice == historicalData[Len(historicalData)]
    IN  IF Len(historicalData) < 2 THEN currentPrice
        ELSE LET yesterdayPrice == ToNum(historicalData[Len(historicalData) - 1])
             IN  IF yesterdayPrice.n # 0
                 THEN Div(Mul(currentPrice, currentPrice), yesterdayPrice)
                 ELSE IF currentPrice.n # 0 THEN InfOfSign(currentPrice.n)
                 ELSE currentPrice

\* C7 as amended: a text that cannot be parsed does not fail the trial; the
\* forecast is replaced by the fallback currentPrice * (1 + priceChange24h / 100)
\* (currentPrice itself when that is 0), and the trial goes on to the realization
\* fetch, so that it can only fail there.
C7_UnparsableFallsBack ==
    Unparsable =>
       /\ trial.predictedPrice = OrElse(FallbackTarget(trial.historicalData), trial.currentPrice)
       /\ InSeq("realizationFetch", trial.stages)
       /\ trial.pc \in {"actuals", "done", "failed"}
       /\ trial.pc = "failed" => trial.error \in {ErrNoActuals, ErrReduceEmpty, ErrDataSource}

\* a scored trial whose forecast is a fallback different from the current price
C7_Witness ==
    /\ Unparsable
    /\ trial.pc = "done"
    /\ trial.predictedPrice # trial.currentPrice
    /\ IsFinite(trial.metrics.mae)

\* C8: when the data source has no point for the historical window, runBacktest
\* fails with the no-historical-data error before the forecaster is invoked and
\* before any realized price is fetched.
C8_EmptyHistoryFailsFirst ==
    obs.hist = "empty" =>
       /\ trial.pc = "failed"
       /\ trial.error = ErrNoHistory
       /\ trial.stages = <<"historicalFetch">>
       /\ obs.forecast = "none"
       /\ obs.actual = "none"

\* a trial that got an empty historical window
C8_Witness == obs.hist = "empty" /\ trial.pc = "failed"

\* C9: when the data source has no point for the horizon of daysToPredict >= 1
\* days, the trial fails with 'No actual prices found for predicted dates' and
\* with no other failure.
C9_EmptyHorizonIsActualsUnavailable ==
    (obs.actual = "empty" /\ trial.daysToPredict >= 1) =>
       trial.pc = "failed" /\ trial.error = ErrNoActuals

\* C10: the sequences handed to calculateMetrics are the first min(len) elements
\* of the predicted path and of the usable actual prices, so they are of equal
\* length and the scorer's length error is never raised.
C10_ReconciledBeforeScoring ==
    /\ trial.error # ErrLength
    /\ InSeq("scoring", trial.stages) =>
          LET path == PredictedPath(trial.currentPrice, trial.predictedPrice, trial.daysToPredict)
              usable == UsablePrices(trial.actualPrices)
              minLength == MinInt(Len(path), Len(usable))
          IN  /\ Len(path) = trial.daysToPredict
              /\ Len(trial.predictedPrices) = Len(trial.actualPriceArray)
              /\ trial.predictedPrices = SubSeq(path, 1, minLength)
              /\ trial.actualPriceArray = SubSeq(usable, 1, minLength)
              /\ trial.pc = "done"
              /\ Len(trial.metrics.absoluteErrors) = minLength

\* a scored trial whose path was longer than its usable actual prices
C10_Witness ==
    /\ trial.pc = "done"
    /\ trial.mismatch
    /\ Len(trial.actualPriceArray) = 1
    /\ trial.daysToPredict = 2

\* element i of the straight line from the anchor price C to the target T over n days
Interpolated(C, T, i, n) == Add(C, Div(Mul(Sub(T, C), Num(i)), Num(n)))

ScoreReturned ==
    /\ call.fn = "calculateMetrics"
    /\ call.pc \in {"returned", "returnedAgain"}
    /\ ~call.result.thrown

AllPositive(s) == \A i \in 1..Len(s) : IsFinite(s[i]) /\ s[i].n > 0

\* C12: scoring a non-empty sequence of positive prices against itself gives
\* mae = mape = rmse = 0 and directionalAccuracy = 1, whatever the anchor price.
C12_IdenticalSequencesScorePerfect ==
    (/\ ScoreReturned
     /\ Len(call.args.predicted) >= 1
     /\ call.args.predicted = call.args.actual
     /\ AllPositive(call.args.predicted)) =>
        /\ call.result.mae = Zero
        /\ call.result.mape = Zero
        /\ call.result.rmse = Zero
        /\ call.result.directionalAccuracy = Num(1)

\* two different positive prices scored against themselves, the first below the anchor
C12_Witness ==
    /\ ScoreReturned
    /\ call.args.predicted = call.args.actual
    /\ Len(call.args.predicted) = 2
    /\ AllPositive(call.args.predicted)
    /\ Lt(call.args.predicted[1], call.args.currentPrice)
    /\ call.args.predicted[1] # call.args.predicted[2]

\* the base price of index i: the anchor price first, then the previous actual price
BaseOf(i) == IF i = 1 THEN call.args.currentPrice ELSE call.args.actual[i - 1]

\* C13: directionalCorrect[i] is true exactly when the sign (negative, zero,
\* positive) of predicted[i] - base_i equals the sign of actual[i] - base_i.
C13_DirectionMatchesSign ==
    ScoreReturned =>
       \A i \in 1..Len(call.args.predicted) :
          call.result.directionalCorrect[i]
             = (SignOf(Sub(call.args.predicted[i], BaseOf(i)))
                   = SignOf(Sub(call.args.actual[i], BaseOf(i))))

\* the call calculateMetrics([100, 105], [100, 105], 100) has returned
ExampleTwoScored ==
    /\ ScoreReturned
    /\ call.args.predicted = <<Num(100), Num(105)>>
    /\ call.args.actual = <<Num(100), Num(105)>>
    /\ call.args.currentPrice = Num(100)

ExampleTwoErrorsAreZero ==
    /\ call.result.mae = Zero
    /\ call.result.rmse = Zero
    /\ call.result.mape = Zero
    /\ call.result.directionalAccuracy = Num(1)

\* C14 as claimed: predicted = [100, 105] scored against actual = [100, 105] with
\* anchor 100 gives mae = rmse = mape = 0, directionalAccuracy = 1 and
\* directionalCorrect = [false, true].
C14_ExampleTwoAsClaimed ==
    ExampleTwoScored =>
       /\ ExampleTwoErrorsAreZero
       /\ call.result.directionalCorrect = <<FALSE, TRUE>>

\* C14 as amended: the same call gives mae = rmse = mape = 0, directionalAccuracy = 1
\* and directionalCorrect = [true, true]: at index 0 neither price is above the
\* base, both count as 'down', and the directions agree.
C14_ExampleTwo ==
    ExampleTwoScored =>
       /\ ExampleTwoErrorsAreZero
       /\ call.result.directionalCorrect = <<TRUE, TRUE>>
       /\ call.result.absoluteErrors = <<Zero, Zero>>

C14_Witness == ExampleTwoScored /\ Len(call.result.directionalCorrect) = 2

\* both calls have returned metrics: the first one and the one without later elements
ScoredTwice ==
    /\ call.fn = "calculateMetrics"
    /\ call.pc = "returnedAgain"
    /\ ~call.result.thrown

\* C15: two calls of calculateMetrics that agree on the anchor price, predicted[0]
\* and actual[0] give the same directionalCorrect[0], whatever the later elements
\* and the lengths are. Every call is compared with the call that keeps only the
\* anchor and the two first elements; two calls that agree on these are compared
\* with the same call, hence agree with each other.
C15_FirstDirectionIgnoresLaterElements ==
    ScoredTwice =>
       /\ ~call.again.thrown
       /\ Len(call.again.directionalCorrect) = 1
       /\ call.result.directionalCorrect[1] = call.again.directionalCorrect[1]

\* a call of two elements whose later elements differ from the first ones
C15_Witness ==
    /\ ScoredTwice
    /\ Len(call.args.predicted) = 2
    /\ call.args.predicted[2] # call.args.predicted[1]
    /\ call.args.actual[2] # call.args.actual[1]
    /\ call.args.actual[2] # call.args.currentPrice

\* C16: the percentage error of an index whose actual price is 0 is 0, so mape
\* is a finite number whenever the scored sequences are not empty.
C16_ZeroActualIsGuarded ==
    (ScoreReturned /\ Len(call.args.actual) >= 1) =>
       /\ \A i \in 1..Len(call.args.actual) :
             call.args.actual[i] = Zero => call.result.percentageErrors[i] = Zero
       /\ IsFinite(call.result.mape)

\* a trial result that scored at least one point
HasData(r) == Len(r.metrics.absoluteErrors) > 0

\* C17: a trial whose scored sequences are empty, so that its metrics are NaN,
\* counts as 'no data' in the batch: the aggregate is the mean over the trials
\* that scored at least one point, and not a mean in which it weighs as 0.
C17_EmptyTrialIsNoData ==
    Returned =>
       LET scored == SelectSeq(batch.report.results, HasData)
           agg == batch.report.aggregateMetrics
       IN  IF Len(scored) = 0
           THEN /\ agg.averageMAE \in {Zero, NaN}
                /\ agg.averageMAPE \in {Zero, NaN}
                /\ agg.averageRMSE \in {Zero, NaN}
                /\ agg.averageDirectionalAccuracy \in {Zero, NaN}
           ELSE /\ agg.averageMAE = MeanOfMetric(scored, "mae", MoneyDigits)
                /\ agg.averageMAPE = MeanOfMetric(scored, "mape", PercentDigits)
                /\ agg.averageRMSE = MeanOfMetric(scored, "rmse", MoneyDigits)
                /\ agg.averageDirectionalAccuracy
                      = MeanOfMetric(scored, "directionalAccuracy", MoneyDigits)

\* the mean of the per-point values a trial result carries, before any rounding
UnroundedMeans(results, field) ==
    [i \in 1..Len(results) |->
        Div(SumSeq(results[i].metrics[field]), Num(Len(results[i].metrics[field])))]

\* the share of right directions of each trial result, before any rounding
UnroundedAccuracies(results) ==
    [i \in 1..Len(results) |->
        Div(Num(Cardinality({j \in 1..Len(results[i].metrics.directionalCorrect) :
                                results[i].metrics.directionalCorrect[j]})),
            Num(Len(results[i].metrics.directionalCorrect)))]

MeanOnce(values, k) == ToFixed(Div(SumSeq(values), Num(Len(values))), k)

\* every trial of the report scored at least one point and has finite metrics
AllTrialsScored ==
    /\ Len(batch.report.results) >= 1
    /\ \A i \in 1..Len(batch.report.results) :
          /\ HasData(batch.report.results[i])
          /\ IsFinite(batch.report.results[i].metrics.mae)
          /\ IsFinite(batch.report.results[i].metrics.mape)

\* C18: the aggregate metrics are the means of the unrounded per-trial metrics,
\* rounded once at the end (stated for mae, mape and directionalAccuracy, whose
\* unrounded values are rational).
C18_AggregateOfUnrounded ==
    (Returned /\ AllTrialsScored) =>
       LET results == batch.report.results
           agg == batch.report.aggregateMetrics
       IN  /\ agg.averageMAE = MeanOnce(UnroundedMeans(results, "absoluteErrors"), MoneyDigits)
           /\ agg.averageMAPE
                 = MeanOnce(UnroundedMeans(results, "percentageErrors"), PercentDigits)
           /\ agg.averageDirectionalAccuracy = MeanOnce(UnroundedAccuracies(results), MoneyDigits)

\* a direct call of calculateAllIndicators has returned
IndicatorsReturned == call.fn = "calculateAllIndicators" /\ call.pc = "returned"

\* the positive prices of the call: what is left when 0 is filtered out
PositiveCount == Cardinality({i \in 1..Len(call.args.prices) : call.args.prices[i].n > 0})

\* an indicator is absent (null) exactly below its minimum sample size
AbsentBelow(value, size, minimum) ==
    /\ (size < minimum) = (value = Null)
    /\ size >= minimum => IsFinite(value)

SampleSizesDecideAbsence(size) ==
    /\ AbsentBelow(call.result.sma7, size, 7)
    /\ AbsentBelow(call.result.sma30, size, 30)
    /\ AbsentBelow(call.result.ema12, size, 12)
    /\ AbsentBelow(call.result.rsi, size, 15)
    /\ AbsentBelow(call.result.volatility, size, 2)

\* C19 as claimed: calculateAllIndicators returns for every price sequence, and
\* sma7 is null iff length < 7, sma30 iff length < 30, ema12 iff length < 12, rsi
\* iff length < 15, volatility iff length < 2, and trend is the neutral value iff
\* length < 10 (read for sequences of positive prices).
C19_AbsentIffTooShort ==
    (IndicatorsReturned /\ AllPositive(call.args.prices)) =>
       /\ SampleSizesDecideAbsence(Len(call.args.prices))
       /\ (Len(call.args.prices) < 10) = (call.result.trend = NeutralTrend)

\* the positive prices of the call, in order
PositiveOnes ==
    SelectSeq(call.args.prices, LAMBDA p : p.n > 0)

\* the least-squares slope of the prices against their index is 0
SlopeIsZero(prices) ==
    LET n == Len(prices)
        sumX == SumSeq([k \in 1..n |-> Num(k - 1)])
        sumXY == SumSeq([k \in 1..n |-> Mul(Num(k - 1), prices[k])])
    IN  Mul(Num(n), sumXY) = Mul(sumX, SumSeq(prices))

\* C19 as amended: calculateAllIndicators returns for every price sequence; with
\* length the number of its positive prices, sma7 is null iff length < 7, sma30
\* iff length < 30, ema12 iff length < 12, rsi iff length < 15, volatility iff
\* length < 2; trend is the neutral value if length < 10, and for length >= 10
\* exactly when the last price equals the first and the regression slope is 0.
C19_AbsentBelowSampleSize ==
    IndicatorsReturned =>
       /\ SampleSizesDecideAbsence(PositiveCount)
       /\ call.result.currentPrice = call.args.currentPrice
       /\ PositiveCount < 10 => call.result.trend = NeutralTrend
       /\ PositiveCount >= 10 =>
             (call.result.trend = NeutralTrend)
                = (/\ PositiveOnes[1] = PositiveOnes[PositiveCount]
                   /\ SlopeIsZero(PositiveOnes))

\* ten equal prices: every indicator of minimum size up to 10 is there, the
\* trend is the neutral value all the same
C19_Witness ==
    /\ IndicatorsReturned
    /\ AllPositive(call.args.prices)
    /\ Len(call.args.prices) = 10
    /\ call.result.sma7 # Null
    /\ call.result.ema12 = Null
    /\ call.result.volatility # Null
    /\ call.result.trend = NeutralTrend

\* a direct call of calculateRSI on at least 15 positive prices has returned
RsiReturned ==
    /\ call.fn = "calculateRSI"
    /\ call.pc = "returned"
    /\ call.args.period = 14
    /\ Len(call.args.prices) >= 15
    /\ AllPositive(call.args.prices)

\* no price is below the one before it within the last 14 differences
NoRecentDecrease(prices) ==
    \A i \in (Len(prices) - 13)..Len(prices) : ~Lt(prices[i], prices[i - 1])

\* C20: on at least 15 strictly positive prices calculateRSI(prices, 14) returns
\* a number between 0 and 100, and 100 when no price decreased within the last
\* 14 differences.
C20_RsiWithinBounds ==
    RsiReturned =>
       /\ IsFinite(call.result)
       /\ ~Lt(call.result, Zero)
       /\ ~Gt(call.result, Num(100))
       /\ NoRecentDecrease(call.args.prices) => call.result = Num(100)

\* rises and falls within the last 14 differences: an RSI strictly inside the range
C20_Witness ==
    /\ RsiReturned
    /\ ~NoRecentDecrease(call.args.prices)
    /\ Gt(call.result, Zero)
    /\ Lt(call.result, Num(100))

\* a direct call of calculateVolatility on at least 2 positive prices has returned
VolatilityReturned ==
    /\ call.fn = "calculateVolatility"
    /\ call.pc = "returned"
    /\ Len(call.args.prices) >= 2
    /\ AllPositive(call.args.prices)

\* some price differs from the one before it
SomeStepDiffers(prices) == \E i \in 2..Len(prices) : prices[i] # prices[i - 1]

\* C21: on at least 2 positive prices calculateVolatility returns 0 when all
\* prices are identical and a strictly positive value as soon as two consecutive
\* prices differ, a series of exactly 2 different prices included.
C21_VolatilityPositiveIffPricesDiffer ==
    VolatilityReturned =>
        IF SomeStepDiffers(call.args.prices)
        THEN IsFinite(call.result) /\ Gt(call.result, Zero)
        ELSE call.result = Zero

\* a direct call of calculateTrend on positive prices has returned
TrendReturned ==
    /\ call.fn = "calculateTrend"
    /\ call.pc = "returned"
    /\ AllPositive(call.args.prices)

\* the change from the first to the last price, in percent of the first
PercentChange(prices) ==
    Rat((prices[Len(prices)].n * prices[1].d - prices[1].n * prices[Len(prices)].d) * 100,
        prices[1].n * prices[Len(prices)].d)

\* the direction the claim gives to a change in percent
DirectionOfChange(change) ==
    IF Gt(change, Num(1)) THEN "uptrend"
    ELSE IF Lt(change, Num(-1)) THEN "downtrend" ELSE "neutral"

\* C22: on at least 10 positive prices calculateTrend reports priceChange =
\* (last - first) / first * 100, direction uptrend iff priceChange > 1, downtrend
\* iff priceChange < -1, neutral otherwise, and a strength within [0, 100]; on
\* fewer than 10 prices it returns neutral, strength 0, priceChange 0; the ten
\* prices 100, 102, 101, 105, 108, 107, 110, 112, 111, 115 give uptrend with
\* priceChange 15.
C22_TrendAsSpecified ==
    TrendReturned =>
        /\ Len(call.args.prices) < 10 => call.result = NeutralTrend
        /\ Len(call.args.prices) >= 10 =>
              /\ call.result.priceChange = PercentChange(call.args.prices)
              /\ call.result.direction = DirectionOfChange(PercentChange(call.args.prices))
              /\ IsFinite(call.result.strength)
              /\ ~Lt(call.result.strength, Zero)
              /\ ~Gt(call.result.strength, Num(100))
        /\ call.args.prices = ExamplePrices =>
              call.result.direction = "uptrend" /\ call.result.priceChange = Num(15)

\* the example has been scored, and its strength reached the cap of 100
C22_Witness ==
    /\ TrendReturned
    /\ call.args.prices = ExamplePrices
    /\ call.result.direction = "uptrend"
    /\ call.result.strength = Num(100)

\* the route has handled a request: it answered, or it awaits runBacktest
RouteHandled == call.fn = "POST /test" /\ call.pc # "received"

\* asset is one of BTC, ETH, FLR, in either case of the letters
AssetAsClaimed(v) == v.type = "string" /\ ToUpperCase(v.str) \in ValidAssets

\* testDate parses to a date strictly before the current time
DateAsClaimed(v, now) ==
    v.type = "string" /\ IsFinite(DateParse(v.str)) /\ DateParse(v.str).n < now

\* daysToPredict is an integer from 1 to 30: a whole number, a text of digits
\* only, or the default of 1 of a missing field
DaysAsClaimed(v) ==
    \/ v.type = "undefined"
    \/ v.type = "number" /\ IsFinite(v.num) /\ v.num.d = 1
          /\ v.num.n \in MinDaysToPredict..MaxDaysToPredict
    \/ /\ v.type = "string" /\ v.str # <<>>
       /\ \A i \in 1..Len(v.str) : IsDigit(v.str[i])
       /\ ReadDigits(v.str, 1, 0) \in MinDaysToPredict..MaxDaysToPredict

RequestAsClaimed ==
    /\ AssetAsClaimed(call.args.body.asset)
    /\ DateAsClaimed(call.args.body.testDate, call.args.now)
    /\ DaysAsClaimed(call.args.body.daysToPredict)

\* C23: the handler of POST /api/backtesting/test invokes runBacktest only when
\* asset is one of BTC, ETH, FLR, testDate parses to a date strictly before the
\* current time and daysToPredict is an integer from 1 to 30; in every other case
\* it answers with status 400 and the backtest service is not called.
C23_RouteCallsServiceOnlyWhenValid ==
    (RouteHandled /\ ~RequestAsClaimed) =>
        /\ call.result.status = 400
        /\ ~call.result.invoked
        /\ trial = NoTrial

\* the forecaster has been called in the running or last trial
ForecasterCalled == InSeq("forecast", trial.stages)

\* C24: in every trial the historical fetch is requested for the range from
\* midnight(testDate) minus 30 days to midnight(testDate), every target date
\* testDate+1 .. testDate+n lies strictly after that range, and the price series
\* and indicators handed to the forecaster come from that fetch alone: the
\* horizon is not fetched before the forecaster has answered.
C24_NoLookahead ==
    TrialStarted =>
        /\ trial.histRange.to = trial.testDate - (trial.testDate % TicksPerDay)
        /\ trial.histRange.from = trial.histRange.to - HistoryDays * TicksPerDay
        /\ Len(trial.predictedDates) \in {0, trial.daysToPredict}
        /\ \A i \in 1..Len(trial.predictedDates) :
              /\ trial.predictedDates[i] = trial.histRange.to + i * TicksPerDay
              /\ trial.predictedDates[i] > trial.histRange.to
        /\ ForecasterCalled =>
              /\ trial.prices = SelectSeq(trial.historicalData, LAMBDA p : p.d > 0 /\ p.n > 0)
              /\ trial.indicators.currentPrice = trial.historicalData[Len(trial.historicalData)]
              /\ trial.indicators =
                     calculateAllIndicators(trial.prices, trial.indicators.currentPrice)
        /\ trial.pc \in {"hist", "forecast"} =>
              /\ obs.actual = "none"
              /\ trial.actualPrices = <<>>
              /\ trial.actualRange = NoRange

\* a trial over two days has been scored on a history with a positive price
C24_Witness ==
    /\ trial.pc = "done"
    /\ trial.daysToPredict = 2
    /\ Len(trial.predictedDates) = 2
    /\ Len(trial.prices) >= 1
    /\ obs.actual = "data"

\* getPricesForDates has returned the prices of its dates
PricesReturned ==
    call.fn = "getPricesForDates" /\ call.pc = "returned" /\ ~call.result.thrown

Distance(point, date) == AbsInt(point.timestamp - date)

\* the sample of minimal distance to the date, the earliest of them
IsEarliestClosest(dataPoints, j, date) ==
    /\ \A k \in 1..Len(dataPoints) : Distance(dataPoints[j], date) <= Distance(dataPoints[k], date)
    /\ \A k \in 1..(j - 1) : Distance(dataPoints[j], date) < Distance(dataPoints[k], date)

\* C25: for each requested date getPricesForDates returns the price of the
\* fetched sample at minimal absolute distance from the date, and of two equally
\* distant samples the one with the earlier timestamp (samples in ascending order).
C25_ClosestSampleEarlierOnTie ==
    PricesReturned =>
        /\ Len(call.result.prices) = Len(call.args.dates)
        /\ \A i \in 1..Len(call.args.dates) :
              \E j \in 1..Len(call.args.dataPoints) :
                  /\ IsEarliestClosest(call.args.dataPoints, j, call.args.dates[i])
                  /\ call.result.prices[i].date = call.args.dates[i]
                  /\ call.result.prices[i].price = call.args.dataPoints[j].price

\* two samples of different prices are equally distant from the second date
C25_Witness ==
    /\ PricesReturned
    /\ Len(call.args.dates) = 2
    /\ Len(call.args.dataPoints) = 2
    /\ Distance(call.args.dataPoints[1], call.args.dates[2])
           = Distance(call.args.dataPoints[2], call.args.dates[2])
    /\ call.args.dataPoints[1].price # call.args.dataPoints[2].price
    /\ call.result.prices[2].price = call.args.dataPoints[1].price

\* C26: in runBacktest, after the filter and the cut to a common length, every
\* pair (predicted[i], actual[i]) handed to the scorer refers to the same target
\* date testDate + (i+1) days, for every answer of the data source, those with a
\* missing or NaN price for a date of the horizon included.
C26_PairsShareTheirDate ==
    trial.pc = "done" =>
        \A i \in 1..Len(trial.predictedPrices) :
            /\ trial.actualPrices[i].date = trial.predictedDates[i]
            /\ trial.predictedPrices[i] = trial.predictedPath[i]
            /\ trial.actualPriceArray[i] = trial.actualPrices[i].price

\* the attempt has been settled: its date is among the succeeded or the failed
Settled(date) ==
    \/ InSeq(date, obs.failed)
    \/ \E i \in 1..Len(obs.succeeded) : obs.succeeded[i].testDate = date

\* C27: in runMultipleBacktests the trials run strictly one after another: no
\* external call of the trial of a later date starts before the trial of the
\* previous date has succeeded or failed, and the results are in strictly
\* ascending order of test date, no date twice.
C27_TrialsAreSequential ==
    InBatch =>
        /\ \A i \in 1..(Len(obs.attempted) - 1) :
              /\ obs.attempted[i] < obs.attempted[i + 1]
              /\ Settled(obs.attempted[i])
        /\ AwaitsExternalCall =>
              /\ trial.testDate = obs.attempted[Len(obs.attempted)]
              /\ ~Settled(trial.testDate)
        /\ Len(obs.succeeded) + Len(obs.failed) \in {Len(obs.attempted) - 1, Len(obs.attempted)}
        /\ \A i \in 1..(Len(batch.results) - 1) :
              batch.results[i].testDate < batch.results[i + 1].testDate
        /\ Len(batch.results) = Len(obs.succeeded)

\* three trials have run, the first failed, the other two are in the report
C27_Witness ==
    /\ Returned
    /\ Len(obs.attempted) = 3
    /\ obs.failed = <<obs.attempted[1]>>
    /\ Len(batch.report.results) = 2
    /\ batch.report.results[1].testDate < batch.report.results[2].testDate

\* C28: for stepDays >= 1, runMultipleBacktests eventually returns a report,
\* after finitely many trials, provided every external call eventually returns
\* or fails; also when every trial fails.
C28_BatchTerminates == (InBatch /\ batch.stepDays >= 1) ~> Returned

\* the report of a batch of at least two trials that all failed
C28_Witness ==
    /\ Returned
    /\ batch.stepDays >= 1
    /\ batch.startDate <= batch.endDate
    /\ Len(obs.attempted) >= 2
    /\ Len(obs.failed) = Len(obs.attempted)
    /\ batch.report.totalTests = 0

\* the trial has reached its scoring stage
ReachedScoring == InSeq("scoring", trial.stages)

\* C29: whenever a trial reaches scoring, the anchor price (currentPrice) used
\* for the indicators, the interpolation and the scorer is strictly positive and
\* is the last element of the filtered positive price series the indicators
\* were computed on.
C29_AnchorIsLastPositivePrice ==
    ReachedScoring =>
        /\ IsFinite(trial.currentPrice)
        /\ Gt(trial.currentPrice, Zero)
        /\ trial.indicators.currentPrice = trial.currentPrice
        /\ Len(trial.prices) >= 1
        /\ trial.prices[Len(trial.prices)] = trial.currentPrice

\* calculateMetrics has scored a non-empty pair of series of equal length
UnroundedScored ==
    /\ call.fn = "calculateMetrics"
    /\ call.pc = "scored"
    /\ ~call.result.thrown
    /\ Len(call.result.errors) >= 1

\* the largest of the per-point absolute errors
LargestError(errors) ==
    CHOOSE e \in {errors[i] : i \in 1..Len(errors)} :
        \A i \in 1..Len(errors) : ~Lt(e, errors[i])

\* C30: for every non-empty pair of series of equal length, the metrics of
\* calculateMetrics before rounding satisfy
\* 0 <= mae <= rmse <= the largest per-point absolute error.
C30_UnroundedMetricsAreOrdered ==
    UnroundedScored =>
        /\ ~Lt(call.result.mae, Zero)
        /\ ~Lt(call.result.rmse, call.result.mae)
        /\ ~Lt(LargestError(call.result.errors), call.result.rmse)

====
